---- MODULE Spec2Model ----
(***************************************************************************)
(* A model of the mentor-conversation engine of AIChatPanel                *)
(* (src/src/components/HeroSection.tsx): the intake negotiation of         *)
(* handleSend, the event-stream read loop and final flush of streamChat,   *)
(* extractFencedJson, and applyFileOps / applyMilestoneOps.                *)
(*                                                                         *)
(* Texts are TLA+ strings, read with Len, SubSeq and \o, so that the code's *)
(* indexOf / slice / trim / split / startsWith are computed character by   *)
(* character.  Indices are 0-based as in the source.  The TLA+ lexer takes *)
(* no backtick inside a string, so the backtick character is written "~":  *)
(* the three-backtick fence is "~~~".                                      *)
(***************************************************************************)
EXTENDS Integers, Sequences, FiniteSets, TLC

(***************************************************************************)
(* Bounds of the model.                                                    *)
(***************************************************************************)
\* applyMilestoneOps calls that may be suspended at once
MaxApplyRuns == 2

(***************************************************************************)
(* String primitives (JavaScript String.prototype), 0-based.               *)
(***************************************************************************)
\* s[i], read as the empty string past the end (where JavaScript yields undefined)
CharAt(s, i) == IF i >= 0 /\ i < Len(s) THEN SubSeq(s, i + 1, i + 1) ELSE ""

\* s.slice(a, b) for 0 <= a, b; an empty string when b <= a
Slice(s, a, b) == SubSeq(s, a + 1, IF b > Len(s) THEN Len(s) ELSE b)

\* s.slice(a)
SliceFrom(s, a) == SubSeq(s, a + 1, Len(s))

StartsWith(s, p) == Len(p) <= Len(s) /\ SubSeq(s, 1, Len(p)) = p

EndsWith(s, p) == Len(p) <= Len(s) /\ SubSeq(s, Len(s) - Len(p) + 1, Len(s)) = p

\* s.indexOf(p, from): the first index >= from where p occurs, or -1
IndexOf(s, p, from) ==
  LET At(i) == SubSeq(s, i + 1, i + Len(p)) = p
      last == Len(s) - Len(p)
  IN IF \E i \in from..last : At(i)
     THEN CHOOSE i \in from..last : At(i) /\ \A j \in from..(i - 1) : ~At(j)
     ELSE -1

\* the first index in lo..hi of a character of s outside chars, or -1
FirstNotIn(s, chars, lo, hi) ==
  LET Out(i) == SubSeq(s, i + 1, i + 1) \notin chars
  IN IF \E i \in lo..hi : Out(i)
     THEN CHOOSE i \in lo..hi : Out(i) /\ \A j \in lo..(i - 1) : ~Out(j)
     ELSE -1

\* the first index in lo..hi of a character of s among chars, or -1
FirstIn(s, chars, lo, hi) ==
  LET In(i) == SubSeq(s, i + 1, i + 1) \in chars
  IN IF \E i \in lo..hi : In(i)
     THEN CHOOSE i \in lo..hi : In(i) /\ \A j \in lo..(i - 1) : ~In(j)
     ELSE -1

\* the last index in lo..hi of a character of s outside chars, or -1
LastNotIn(s, chars, lo, hi) ==
  LET Out(i) == SubSeq(s, i + 1, i + 1) \notin chars
  IN IF \E d \in 0..(hi - lo) : Out(hi - d)
     THEN hi - (CHOOSE d \in 0..(hi - lo) : Out(hi - d) /\ \A e \in 0..(d - 1) : ~Out(hi - e))
     ELSE -1

\* the characters String.prototype.trim and the regular expression \s strip
WhiteSpace == {" ", "\t", "\n", "\r"}

TrimStart(s) ==
  LET From(i) == IF i = -1 THEN "" ELSE SliceFrom(s, i)
  IN From(FirstNotIn(s, WhiteSpace, 0, Len(s) - 1))

TrimEnd(s) ==
  LET UpTo(i) == IF i = -1 THEN "" ELSE Slice(s, 0, i + 1)
  IN UpTo(LastNotIn(s, WhiteSpace, 0, Len(s) - 1))

\* s.trim()
Trim(s) == TrimEnd(TrimStart(s))

RECURSIVE SplitNL(_)
\* s.split("\n"): the pieces between the newlines, the empty ones included
SplitNL(s) ==
  LET CutAt(i) == IF i = -1 THEN <<s>> ELSE <<Slice(s, 0, i)>> \o SplitNL(SliceFrom(s, i + 1))
  IN CutAt(IndexOf(s, "\n", 0))

\* the lower-case letter of each upper-case letter
LowerOf ==
  ("A" :> "a") @@ ("B" :> "b") @@ ("C" :> "c") @@ ("D" :> "d") @@ ("E" :> "e") @@
  ("F" :> "f") @@ ("G" :> "g") @@ ("H" :> "h") @@ ("I" :> "i") @@ ("J" :> "j") @@
  ("K" :> "k") @@ ("L" :> "l") @@ ("M" :> "m") @@ ("N" :> "n") @@ ("O" :> "o") @@
  ("P" :> "p") @@ ("Q" :> "q") @@ ("R" :> "r") @@ ("S" :> "s") @@ ("T" :> "t") @@
  ("U" :> "u") @@ ("V" :> "v") @@ ("W" :> "w") @@ ("X" :> "x") @@ ("Y" :> "y") @@
  ("Z" :> "z")

LowerChar(c) == IF c \in DOMAIN LowerOf THEN LowerOf[c] ELSE c

RECURSIVE ToLowerCase(_)
\* s.toLowerCase(), also the reading of a regular expression's i flag
ToLowerCase(s) ==
  IF Len(s) <= 1 THEN LowerChar(s)
  ELSE ToLowerCase(Slice(s, 0, Len(s) \div 2)) \o ToLowerCase(SliceFrom(s, Len(s) \div 2))

(***************************************************************************)
(* JavaScript values, as JSON.parse yields them (the code types them any). *)
(* A value is tagged with its type; an object is a function from its keys. *)
(***************************************************************************)
Undefined == [t |-> "undefined"]
Null == [t |-> "null"]
JStr(s) == [t |-> "str", v |-> s]
JNum(n) == [t |-> "num", v |-> n]
JBool(b) == [t |-> "bool", v |-> b]
JArr(q) == [t |-> "arr", v |-> q]
JObj(f) == [t |-> "obj", v |-> f]
EmptyObj == [k \in {} |-> Undefined]

\* Array.isArray(v)
IsArray(v) == v.t = "arr"

\* JavaScript truthiness: if (v), !v, v || w
Truthy(v) ==
  CASE v.t = "undefined" -> FALSE
    [] v.t = "null" -> FALSE
    [] v.t = "str" -> v.v # ""
    [] v.t = "num" -> v.v # 0
    [] v.t = "bool" -> v.v
    [] OTHER -> TRUE

\* v || w
OrElse(v, w) == IF Truthy(v) THEN v ELSE w

\* v.key of a non-null value: an object's own member, otherwise undefined
\* (the keys the code reads are no members of arrays, strings or numbers)
Member(v, key) ==
  IF v.t = "obj" /\ key \in DOMAIN v.v THEN v.v[key] ELSE Undefined

\* v?.[i]: the element of an array, the character of a string, else undefined
Element(v, i) ==
  CASE v.t = "arr" /\ i < Len(v.v) -> v.v[i + 1]
    [] v.t = "str" /\ i < Len(v.v) -> JStr(CharAt(v.v, i))
    [] OTHER -> Undefined

\* v?.key
OptMember(v, key) == IF v.t \in {"undefined", "null"} THEN Undefined ELSE Member(v, key)

Digits == "0123456789"

RECURSIVE NatToString(_)
NatToString(n) ==
  IF n < 10 THEN CharAt(Digits, n) ELSE NatToString(n \div 10) \o CharAt(Digits, n % 10)

RECURSIVE StringOf(_)
RECURSIVE JoinValues(_)
\* Array.prototype.join(","): null and undefined elements read as empty
JoinValues(q) ==
  IF Len(q) = 0 THEN ""
  ELSE (IF Head(q).t \in {"null", "undefined"} THEN "" ELSE StringOf(Head(q)))
       \o (IF Len(q) = 1 THEN "" ELSE "," \o JoinValues(Tail(q)))

\* String(v), and the reading of v in a string concatenation
StringOf(v) ==
  CASE v.t = "str" -> v.v
    [] v.t = "num" -> IF v.v < 0 THEN "-" \o NatToString(-v.v) ELSE NatToString(v.v)
    [] v.t = "bool" -> IF v.v THEN "true" ELSE "false"
    [] v.t = "null" -> "null"
    [] v.t = "undefined" -> "undefined"
    [] v.t = "arr" -> JoinValues(v.v)
    [] OTHER -> "[object Object]"

(***************************************************************************)
(* JSON.parse: a recursive-descent reading of ECMA-404 restricted to       *)
(* objects, arrays, strings with the escapes \" \\ \/ \n \r \t, integers   *)
(* and the three literals.  A text outside the grammar throws (ok = FALSE).*)
(***************************************************************************)
ParseFail == [ok |-> FALSE]
ParseOk(v, p) == [ok |-> TRUE, val |-> v, pos |-> p]

JsonWhiteSpace == {" ", "\t", "\n", "\r"}

\* the index of the first character at or after i that is no white space
SkipWs(s, i) ==
  LET Found(j) == IF j = -1 THEN Len(s) ELSE j
  IN IF i >= Len(s) THEN i ELSE Found(FirstNotIn(s, JsonWhiteSpace, i, Len(s) - 1))

Escapes == ("\"" :> "\"") @@ ("\\" :> "\\") @@ ("/" :> "/")
           @@ ("n" :> "\n") @@ ("r" :> "\r") @@ ("t" :> "\t")

\* the character at j of s is escaped: an odd number of backslashes, counted
\* back to from, stands right before it
IsEscapedAt(s, from, j) ==
  LET Odd(k) == ((j - 1) - (IF k = -1 THEN from - 1 ELSE k)) % 2 = 1
  IN Odd(LastNotIn(s, {"\\"}, from, j - 1))

\* the first index in lo..hi of a quote of s that is not escaped, or -1; the
\* string began at from
FirstClosingQuote(s, from, lo, hi) ==
  LET Closes(i) == SubSeq(s, i + 1, i + 1) = "\"" /\ ~IsEscapedAt(s, from, i)
  IN IF \E i \in lo..hi : Closes(i)
     THEN CHOOSE i \in lo..hi : Closes(i) /\ \A j \in lo..(i - 1) : ~Closes(j)
     ELSE -1

RECURSIVE Unescape(_)
\* the characters a string body b stands for; ok = FALSE for an escape outside
\* the table or a control character.  b is cut where no escape is split.
Unescape(b) ==
  IF Len(b) = 0 THEN [ok |-> TRUE, val |-> ""]
  ELSE IF Len(b) = 1
  THEN (IF b \in {"\\", "\n", "\r", "\t"} THEN [ok |-> FALSE] ELSE [ok |-> TRUE, val |-> b])
  ELSE IF Len(b) = 2 /\ CharAt(b, 0) = "\\"
  THEN (IF CharAt(b, 1) \in DOMAIN Escapes
        THEN [ok |-> TRUE, val |-> Escapes[CharAt(b, 1)]] ELSE [ok |-> FALSE])
  ELSE LET Join(left, right) ==
             IF left.ok /\ right.ok THEN [ok |-> TRUE, val |-> left.val \o right.val]
             ELSE [ok |-> FALSE]
           CutAt(cut) == Join(Unescape(Slice(b, 0, cut)), Unescape(SliceFrom(b, cut)))
       IN CutAt(IF IsEscapedAt(b, 0, Len(b) \div 2) THEN Len(b) \div 2 + 1 ELSE Len(b) \div 2)

\* the characters of a string after its opening quote at i - 1, up to the
\* closing one
ScanString(s, i, acc) ==
  LET Body(close, body) ==
        IF close = -1 \/ ~body.ok THEN ParseFail ELSE ParseOk(acc \o body.val, close + 1)
      Closed(close) == Body(close, Unescape(Slice(s, i, close)))
  IN Closed(FirstClosingQuote(s, i, i, Len(s) - 1))

RECURSIVE ScanDigits(_, _, _)
ScanDigits(s, i, acc) ==
  IF i < Len(s) /\ IndexOf(Digits, CharAt(s, i), 0) # -1
  THEN ScanDigits(s, i + 1, 10 * acc + IndexOf(Digits, CharAt(s, i), 0))
  ELSE [val |-> acc, pos |-> i]

\* an integer: an optional minus, then 0 or a digit string without leading 0
ParseNumber(s, i) ==
  LET Scanned(neg, j, d) ==
        IF d.pos = j THEN ParseFail
        ELSE IF CharAt(s, j) = "0" /\ d.pos > j + 1 THEN ParseFail
        ELSE IF d.pos < Len(s) /\ CharAt(s, d.pos) \in {".", "e", "E"} THEN ParseFail
        ELSE ParseOk(JNum(IF neg THEN -d.val ELSE d.val), d.pos)
      Signed(neg, j) == Scanned(neg, j, ScanDigits(s, j, 0))
  IN Signed(CharAt(s, i) = "-", IF CharAt(s, i) = "-" THEN i + 1 ELSE i)

RECURSIVE ParseValue(_, _)
RECURSIVE ParseElements(_, _, _)
RECURSIVE ParseMembers(_, _, _)

\* the elements of an array after "[" or ",": value, then "," or "]"
ParseElements(s, i, acc) ==
  LET After(r, j) ==
        CASE CharAt(s, j) = "," -> ParseElements(s, j + 1, Append(acc, r.val))
          [] CharAt(s, j) = "]" -> ParseOk(JArr(Append(acc, r.val)), j + 1)
          [] OTHER -> ParseFail
      Value(r) == IF ~r.ok THEN ParseFail ELSE After(r, SkipWs(s, r.pos))
  IN Value(ParseValue(s, i))

\* the members of an object after "{" or ",": "key" : value, then "," or "}"
ParseMembers(s, i, acc) ==
  LET After(f, j) ==
        CASE CharAt(s, j) = "," -> ParseMembers(s, j + 1, f)
          [] CharAt(s, j) = "}" -> ParseOk(JObj(f), j + 1)
          [] OTHER -> ParseFail
      Value(key, r) ==
        IF ~r.ok THEN ParseFail ELSE After((key.val :> r.val) @@ acc, SkipWs(s, r.pos))
      Colon(key, c) ==
        IF CharAt(s, c) # ":" THEN ParseFail ELSE Value(key, ParseValue(s, c + 1))
      Key(key) == IF ~key.ok THEN ParseFail ELSE Colon(key, SkipWs(s, key.pos))
      Quote(k) == IF CharAt(s, k) # "\"" THEN ParseFail ELSE Key(ScanString(s, k + 1, ""))
  IN Quote(SkipWs(s, i))

ParseValue(s, i) ==
  LET Object(j, k) ==
        IF CharAt(s, k) = "}" THEN ParseOk(JObj(EmptyObj), k + 1)
        ELSE ParseMembers(s, j + 1, EmptyObj)
      Array(j, k) ==
        IF CharAt(s, k) = "]" THEN ParseOk(JArr(<<>>), k + 1)
        ELSE ParseElements(s, j + 1, <<>>)
      Str(r) == IF r.ok THEN ParseOk(JStr(r.val), r.pos) ELSE ParseFail
      Literal(j, rest) ==
        CASE StartsWith(rest, "true") -> ParseOk(JBool(TRUE), j + 4)
          [] StartsWith(rest, "false") -> ParseOk(JBool(FALSE), j + 5)
          [] StartsWith(rest, "null") -> ParseOk(Null, j + 4)
          [] OTHER -> ParseFail
      Value(j, c) ==
        CASE c = "{" -> Object(j, SkipWs(s, j + 1))
          [] c = "[" -> Array(j, SkipWs(s, j + 1))
          [] c = "\"" -> Str(ScanString(s, j + 1, ""))
          [] c = "-" \/ (c # "" /\ IndexOf(Digits, c, 0) # -1) -> ParseNumber(s, j)
          [] OTHER -> Literal(j, SliceFrom(s, j))
      Start(j) == Value(j, CharAt(s, j))
  IN Start(SkipWs(s, i))

\* JSON.parse(s): ok = FALSE stands for the SyntaxError it throws
JSONParse(s) ==
  LET Whole(r) ==
        IF r.ok /\ SkipWs(s, r.pos) = Len(s) THEN [ok |-> TRUE, val |-> r.val] ELSE ParseFail
  IN Whole(ParseValue(s, 0))

(***************************************************************************)
(* Messages of the panel (interface Message).  An id is the reading of     *)
(* Date.now() it was made from.                                            *)
(***************************************************************************)
Msg(id, role, content, type) == [id |-> id, role |-> role, content |-> content, type |-> type]

IsLastAssistant(msgs, aid) ==
  Len(msgs) > 0 /\ msgs[Len(msgs)].role = "assistant" /\ msgs[Len(msgs)].id = aid

\* an updater that writes the content into every assistant message
ShowDeltaEverywhere(msgs, aid, content) ==
  IF IsLastAssistant(msgs, aid)
  THEN [k \in 1..Len(msgs) |->
          IF msgs[k].role = "assistant" THEN [msgs[k] EXCEPT !.content = content] ELSE msgs[k]]
  ELSE Append(msgs, Msg(aid, "assistant", content, "explanation"))

\* the updater of the read loop: replace the content of every message with the
\* response's id when the last message is that response, else append it
ShowDelta(msgs, aid, content) ==
  IF IsLastAssistant(msgs, aid)
  THEN [k \in 1..Len(msgs) |->
          IF msgs[k].id = aid THEN [msgs[k] EXCEPT !.content = content] ELSE msgs[k]]
  ELSE Append(msgs, Msg(aid, "assistant", content, "explanation"))

\* the updater of the final flush: replace the content of the last message when
\* it is the response, else leave the list as it is
ShowFlushDelta(msgs, aid, content) ==
  IF IsLastAssistant(msgs, aid)
  THEN [msgs EXCEPT ![Len(msgs)].content = content]
  ELSE msgs

(***************************************************************************)
(* The Stream Ingestor: the read loop and the final flush of streamChat.   *)
(***************************************************************************)
DataMarker == "data: "
DoneSentinel == "[DONE]"

\* the try block of one data line: JSON.parse(jsonStr), then
\* parsed.choices?.[0]?.delta?.content; ok = FALSE when either throws
\* (a SyntaxError, or the TypeError of reading .choices of null)
DeltaContent(jsonStr) ==
  LET Content(parsed) ==
        IF ~parsed.ok \/ parsed.val.t = "null" THEN [ok |-> FALSE]
        ELSE [ok |-> TRUE,
              val |-> OptMember(OptMember(Element(Member(parsed.val, "choices"), 0),
                                          "delta"), "content")]
  IN Content(JSONParse(jsonStr))

\* if (line.endsWith("\r")) line = line.slice(0, -1)
StripCR(line) == IF EndsWith(line, "\r") THEN Slice(line, 0, Len(line) - 1) ELSE line

\* line.startsWith(":") || line.trim() === "" || !line.startsWith("data: ")
IsSkippedLine(line) ==
  StartsWith(line, ":") \/ Trim(line) = "" \/ ~StartsWith(line, DataMarker)

\* a catch that puts the line back twice
PutBackTwice(line, rest) == line \o "\n" \o line \o "\n" \o rest

\* textBuffer = line + "\n" + textBuffer, in the catch of the read loop
PutBack(line, rest) == line \o "\n" \o rest

RECURSIVE LineLoopPastDone(_, _)
\* a line loop that goes on with the lines behind a [DONE] line
LineLoopPastDone(st, aid) ==
  LET Shown(rest, c) ==
        LineLoopPastDone([buf |-> rest, content |-> c, msgs |-> ShowDelta(st.msgs, aid, c)], aid)
      Payload(line, rest, d) ==
        IF ~d.ok THEN [st EXCEPT !.buf = PutBack(line, rest)]
        ELSE IF Truthy(d.val) THEN Shown(rest, st.content \o StringOf(d.val))
        ELSE LineLoopPastDone([st EXCEPT !.buf = rest], aid)
      Line(line, rest) ==
        IF IsSkippedLine(line) \/ Trim(SliceFrom(line, 6)) = DoneSentinel
        THEN LineLoopPastDone([st EXCEPT !.buf = rest], aid)
        ELSE Payload(line, rest, DeltaContent(Trim(SliceFrom(line, 6))))
      At(newlineIndex) ==
        IF newlineIndex = -1 THEN st
        ELSE Line(StripCR(Slice(st.buf, 0, newlineIndex)), SliceFrom(st.buf, newlineIndex + 1))
  IN At(IndexOf(st.buf, "\n", 0))

RECURSIVE LineLoop(_, _)
\* the inner while loop over st = [buf, content, msgs], for the response aid:
\* take newline-terminated lines off the buffer until none is left, a [DONE]
\* line is met, or a data line's payload throws (the line is put back)
LineLoop(st, aid) ==
  LET Shown(rest, c) ==
        LineLoop([buf |-> rest, content |-> c, msgs |-> ShowDelta(st.msgs, aid, c)], aid)
      Payload(line, rest, d) ==
        IF ~d.ok THEN [st EXCEPT !.buf = PutBack(line, rest)]
        ELSE IF Truthy(d.val) THEN Shown(rest, st.content \o StringOf(d.val))
        ELSE LineLoop([st EXCEPT !.buf = rest], aid)
      Data(line, rest, jsonStr) ==
        IF jsonStr = DoneSentinel THEN [st EXCEPT !.buf = rest]
        ELSE Payload(line, rest, DeltaContent(jsonStr))
      Line(line, rest) ==
        IF IsSkippedLine(line) THEN LineLoop([st EXCEPT !.buf = rest], aid)
        ELSE Data(line, rest, Trim(SliceFrom(line, 6)))
      At(newlineIndex) ==
        IF newlineIndex = -1 THEN st
        ELSE Line(StripCR(Slice(st.buf, 0, newlineIndex)), SliceFrom(st.buf, newlineIndex + 1))
  IN At(IndexOf(st.buf, "\n", 0))

\* The bytes of the stream are written as characters: a byte below 0x80 as the
\* character it encodes, the two bytes of a two-byte character as LeadByte and
\* ContByte, the character they encode as TwoByteChar, U+FFFD as Replacement.
LeadByte == "^"
ContByte == "%"
TwoByteChar == "#"
Replacement == "?"

RECURSIVE Decode(_)
\* decoder.decode(value, { stream: true }) of the bytes b, which begin with
\* what the decoder held back: the text decoded, and the bytes held back now
Decode(b) ==
  LET Then(head, d) == [text |-> head \o d.text, rest |-> d.rest]
      At(i) ==
        IF i = -1 THEN [text |-> b, rest |-> ""]
        ELSE IF CharAt(b, i) = ContByte
        THEN Then(Slice(b, 0, i) \o Replacement, Decode(SliceFrom(b, i + 1)))
        ELSE IF i = Len(b) - 1 THEN [text |-> Slice(b, 0, i), rest |-> LeadByte]
        ELSE IF CharAt(b, i + 1) = ContByte
        THEN Then(Slice(b, 0, i) \o TwoByteChar, Decode(SliceFrom(b, i + 2)))
        ELSE Then(Slice(b, 0, i) \o Replacement, Decode(SliceFrom(b, i + 1)))
  IN At(FirstIn(b, {LeadByte, ContByte}, 0, Len(b) - 1))

\* a read loop that forgets what the previous chunks left in the buffer
AppendChunkForgetting(buf, chunk) == chunk

\* textBuffer += decoder.decode(value, { stream: true })
AppendChunk(buf, chunk) == buf \o chunk

\* one pass of the outer loop with a chunk read from the transport
ProcessChunk(st, chunk, aid) ==
  LineLoop([st EXCEPT !.buf = AppendChunk(st.buf, chunk)], aid)

RECURSIVE FlushLines(_, _, _)
\* the for loop of the final flush over the pieces raws of textBuffer.split("\n")
FlushLines(raws, st, aid) ==
  LET Shown(c) ==
        FlushLines(Tail(raws),
                   [st EXCEPT !.content = c, !.msgs = ShowFlushDelta(st.msgs, aid, c)], aid)
      Payload(d) ==
        IF ~d.ok \/ ~Truthy(d.val) THEN FlushLines(Tail(raws), st, aid)
        ELSE Shown(st.content \o StringOf(d.val))
      Data(jsonStr) ==
        IF jsonStr = DoneSentinel THEN FlushLines(Tail(raws), st, aid)
        ELSE Payload(DeltaContent(jsonStr))
      Line(raw) ==
        IF Head(raws) = "" \/ IsSkippedLine(raw) THEN FlushLines(Tail(raws), st, aid)
        ELSE Data(Trim(SliceFrom(raw, 6)))
  IN IF Len(raws) = 0 THEN st ELSE Line(StripCR(Head(raws)))

\* a streamChat without the final flush
FinalFlushNothing(st, aid) == st

\* the final flush, run once the reader reports done
FinalFlush(st, aid) ==
  IF Trim(st.buf) # "" THEN FlushLines(SplitNL(st.buf), st, aid) ELSE st

(***************************************************************************)
(* The Command Extractor: extractFencedJson.                               *)
(***************************************************************************)
Fence == "~~~"

\* an extractor that takes the last fence of the text as the closing one
ExtractFencedJsonGreedy(text, tag) ==
  LET Parsed(raw, p) ==
        IF p.ok THEN [t |-> "extract", raw |-> raw, parsed |-> p.val] ELSE Null
      Body(raw) == Parsed(raw, JSONParse(raw))
      IsFence(i) == SubSeq(text, i + 1, i + Len(Fence)) = Fence
      Closing(from, fences) ==
        IF fences = {} THEN Null
        ELSE Body(Trim(Slice(text, from, CHOOSE i \in fences : \A j \in fences : j <= i)))
      Opening(startTag, start) ==
        IF start = -1 THEN Null
        ELSE Closing(start + Len(startTag),
                     {i \in (start + Len(startTag))..(Len(text) - Len(Fence)) : IsFence(i)})
  IN Opening(Fence \o tag, IndexOf(text, Fence \o tag, 0))

\* an extractor that goes on to the next block of the tag when the body of
\* the first is not JSON
ExtractFencedJsonRetrying(text, tag) ==
  LET startTag == Fence \o tag
      Parsed(raw, p) == [t |-> "extract", raw |-> raw, parsed |-> p.val]
      Body(raw, p, next) ==
        IF p.ok THEN Parsed(raw, p)
        ELSE IF next = -1 THEN Null
        ELSE (LET from == next + Len(startTag)
                  closing == IndexOf(text, Fence, from)
                  With(raw2) == (LET Second(p2) == IF p2.ok THEN Parsed(raw2, p2) ELSE Null
                                 IN Second(JSONParse(raw2)))
              IN IF closing = -1 THEN Null ELSE With(Trim(Slice(text, from, closing))))
      Closing(start, from, closing) ==
        IF closing = -1 \/ closing <= start THEN Null
        ELSE (LET With(raw) == Body(raw, JSONParse(raw), IndexOf(text, startTag, from))
              IN With(Trim(Slice(text, from, closing))))
      Opening(start) ==
        IF start = -1 THEN Null
        ELSE Closing(start, start + Len(startTag), IndexOf(text, Fence, start + Len(startTag)))
  IN Opening(IndexOf(text, startTag, 0))

\* the result of extractFencedJson: null, or { raw, parsed }
ExtractFencedJson(text, tag) ==
  LET Parsed(raw, p) ==
        IF p.ok THEN [t |-> "extract", raw |-> raw, parsed |-> p.val] ELSE Null
      Body(raw) == Parsed(raw, JSONParse(raw))
      Closing(start, from, closing) ==
        IF closing = -1 \/ closing <= start THEN Null
        ELSE Body(Trim(Slice(text, from, closing)))
      Opening(startTag, start) ==
        IF start = -1 THEN Null
        ELSE Closing(start, start + Len(startTag),
                     IndexOf(text, Fence, start + Len(startTag)))
  IN Opening(Fence \o tag, IndexOf(text, Fence \o tag, 0))

\* assistantContent ? extractFencedJson(assistantContent, tag) : null
ExtractIfContent(content, tag) ==
  IF content # "" THEN ExtractFencedJson(content, tag) ELSE Null

\* extract?.parsed
ParsedOf(ex) == IF ex.t = "extract" THEN ex.parsed ELSE Undefined

(***************************************************************************)
(* The Intake Collector's parser: parseIntakeFromText.                     *)
(***************************************************************************)
RECURSIVE SplitLines(_)
\* text.split(/\r?\n/)
SplitLines(text) ==
  LET CutAt(i) ==
        IF i = -1 THEN <<text>>
        ELSE <<StripCR(Slice(text, 0, i))>> \o SplitLines(SliceFrom(text, i + 1))
  IN CutAt(IndexOf(text, "\n", 0))

RECURSIVE TrimmedNonEmpty(_)
\* .map((l) => l.trim()).filter(Boolean)
TrimmedNonEmpty(lines) ==
  LET Kept(l) == IF l = "" THEN <<>> ELSE <<l>>
  IN IF Len(lines) = 0 THEN <<>>
     ELSE Kept(Trim(Head(lines))) \o TrimmedNonEmpty(Tail(lines))

\* line.match(/^([^:]+):\s*(.+)$/): the key is what precedes the first colon, the
\* value what follows it without its leading white space; no match when either
\* is empty or the value holds a line terminator (which . does not match)
MatchKeyValue(line) ==
  LET Groups(colon, value) ==
        IF colon <= 0 \/ value = "" \/ IndexOf(value, "\r", 0) # -1
           \/ IndexOf(value, "\n", 0) # -1
        THEN [ok |-> FALSE]
        ELSE [ok |-> TRUE, key |-> Slice(line, 0, colon), value |-> value]
      At(colon) == Groups(colon, TrimStart(SliceFrom(line, colon + 1)))
  IN At(IndexOf(line, ":", 0))

RECURSIVE KeyValueMap(_, _)
\* the for loop: map[m[1].toLowerCase()] = m[2], a later line overwriting
KeyValueMap(lines, map) ==
  LET Put(m) == IF m.ok THEN (ToLowerCase(m.key) :> m.value) @@ map ELSE map
  IN IF Len(lines) = 0 THEN map
     ELSE KeyValueMap(Tail(lines), Put(MatchKeyValue(Head(lines))))

\* a lookup that reads the alias before the key
LookupAliasFirst(map, k1, k2) ==
  IF k2 \in DOMAIN map THEN map[k2] ELSE IF k1 \in DOMAIN map THEN map[k1] ELSE ""

\* map[k1] || map[k2] || ""
Lookup(map, k1, k2) ==
  IF k1 \in DOMAIN map THEN map[k1] ELSE IF k2 \in DOMAIN map THEN map[k2] ELSE ""

EmptyMap == [k \in {} |-> ""]

\* a parse that is content with the project idea
ParseIntakeFromTextPartial(text) ==
  LET Record(projectIdea, techStack, skillLevel, timeline) ==
        IF projectIdea # ""
        THEN [t |-> "intake", projectIdea |-> projectIdea, techStack |-> techStack,
              skillLevel |-> skillLevel, timeline |-> timeline]
        ELSE Null
      Fields(map) ==
        Record(Lookup(map, "project idea", "project"), Lookup(map, "tech stack", "tech"),
               Lookup(map, "skill level", "skill"), Lookup(map, "timeline", "timeframe"))
  IN Fields(KeyValueMap(TrimmedNonEmpty(SplitLines(text)), EmptyMap))

ParseIntakeFromText(text) ==
  LET Record(projectIdea, techStack, skillLevel, timeline) ==
        IF projectIdea # "" /\ techStack # "" /\ skillLevel # "" /\ timeline # ""
        THEN [t |-> "intake", projectIdea |-> projectIdea, techStack |-> techStack,
              skillLevel |-> skillLevel, timeline |-> timeline]
        ELSE Null
      Fields(map) ==
        Record(Lookup(map, "project idea", "project"), Lookup(map, "tech stack", "tech"),
               Lookup(map, "skill level", "skill"), Lookup(map, "timeline", "timeframe"))
  IN Fields(KeyValueMap(TrimmedNonEmpty(SplitLines(text)), EmptyMap))

(***************************************************************************)
(* State of AIChatPanel, of its collaborators, and of the calls in flight. *)
(***************************************************************************)
VARIABLES
  messages,               \* useState<Message[]>
  intake,                 \* the parsed intake record, or Null
  intakeConfirmed,
  awaitingConfirmation,
  isLoading,
  pendingFileOps,         \* the staged FILE_OPS payload, or Null
  showFileOpsDialog,
  pendingMilestoneOps,    \* the staged MILESTONE_OPS payload, or Null
  showMilestoneOpsDialog,
  opsLog,                 \* one entry per finished applyFileOps: its results
  now,                    \* Date.now()
  conversation,           \* currentConversation is set
  hasFs,                  \* fs is not null (a FileSystem provider is present)
  hasSubmission,          \* the submissionId prop is set
  store,                  \* calls made to the conversation store, in order
  fsCalls,                \* calls made to the file system and the download, in order
  dbCalls,                \* supabase calls issued (milestones, tasks, mentor_reports)
  toasts,                 \* toasts shown, in order
  requests,               \* bodies of the requests sent to CHAT_URL, in order
  scPc,                   \* where streamChat stands: idle, fetching, reading
  streamAll,              \* the whole body the transport delivers for this response
  streamRest,             \* what the reader has not delivered yet
  decoderRest,            \* bytes the TextDecoder holds back: an incomplete character
  cutInLine,              \* some chunk so far ended inside a line of the stream
  textBuffer,
  assistantContent,
  assistantId,
  msRuns,                 \* the applyMilestoneOps calls suspended on an update
  msDone,                 \* each finished applyMilestoneOps: operations, outcomes, results
  applyEnv,               \* the last applyFileOps: its operations, and which of them met a throw
  fnIn,                   \* argument of the pure function under check
  fnOut                   \* its result

sessVars == <<messages, intake, intakeConfirmed, awaitingConfirmation, isLoading, now>>
stageVars == <<pendingFileOps, showFileOpsDialog, pendingMilestoneOps,
               showMilestoneOpsDialog, opsLog>>
propVars == <<conversation, hasFs, hasSubmission>>
collabVars == <<store, fsCalls, dbCalls, toasts, requests>>
streamVars == <<scPc, streamAll, streamRest, decoderRest, cutInLine, textBuffer, assistantContent,
                assistantId>>
applyVars == <<msRuns, msDone, applyEnv>>
fnVars == <<fnIn, fnOut>>
vars == <<sessVars, stageVars, propVars, collabVars, streamVars, applyVars, fnVars>>

(***************************************************************************)
(* Fixed texts of the panel.  The em dash of the source is written "--".   *)
(***************************************************************************)
WelcomeText ==
  "You are interacting with BODHIT -- the Project-Skill Chatbot. My role: teach, guide, and evaluate your project work; I will NOT write code for you.\n\nBefore I create milestones or give guidance, provide all of these inputs (I will NOT proceed until confirmed):\n- Project idea (one-line description)\n- Tech stack / language (primary)\n- Skill level (beginner / intermediate / advanced)\n- Timeline (weeks or target date)\n\nPlease provide the four fields in one message in this format:\nProject idea: ...\nTech stack: ...\nSkill level: ...\nTimeline: ...\n\nAfter you provide and confirm these, I will propose a numbered sequence of milestones. I will not produce runnable code -- I will only explain concepts, ask guiding questions, and produce verifiable milestone plans."

RefusalText ==
  "I cannot provide code. Describe your intended approach and I will guide the logic, tests, and structure."

ConfirmedText ==
  "Intake confirmed. Tell me which milestone you'd like to start with, or ask me to create the full milestone sequence."

ReenterText == "Okay -- please re-enter the intake fields in the required format."

HelperText ==
  "Please provide the required intake fields in this exact format:\nProject idea: ...\nTech stack: ...\nSkill level: ...\nTimeline: ...\n\nOr confirm the parsed intake with 'yes'/'no'."

\* an echo that leaves the timeline out
EchoTextWithoutTimeline(parsed) ==
  "I parsed your intake as:\nProject idea: " \o parsed.projectIdea
  \o "\nTech stack: " \o parsed.techStack
  \o "\nSkill level: " \o parsed.skillLevel
  \o "\n\nPlease reply with **yes** to confirm or **no** to re-enter the details."

\* the echo of a parsed intake record
EchoText(parsed) ==
  "I parsed your intake as:\nProject idea: " \o parsed.projectIdea
  \o "\nTech stack: " \o parsed.techStack
  \o "\nSkill level: " \o parsed.skillLevel
  \o "\nTimeline: " \o parsed.timeline
  \o "\n\nPlease reply with **yes** to confirm or **no** to re-enter the details."

CodeRequestPatterns ==
  {"give me the code", "paste the code", "implement for me", "write the code",
   "full implementation", "complete solution"}

\* codeRequestPatterns.some((rx) => rx.test(text)), every rx carrying the i flag
IsCodeRequest(text) ==
  \E rx \in CodeRequestPatterns : IndexOf(ToLowerCase(text), rx, 0) # -1

\* a pattern that takes every reply beginning with yes
IsYesLoose(text) == StartsWith(ToLowerCase(text), "yes")

\* /^yes$/i.test(text)
IsYes(text) == ToLowerCase(text) = "yes"

\* a pattern that no reply matches
IsNoNever(text) == FALSE

\* /^no$/i.test(text)
IsNo(text) == ToLowerCase(text) = "no"

(***************************************************************************)
(* Calls to the conversation store (useConversationHistory).               *)
(***************************************************************************)
AddMessage(role, content, type, fileOps, mentorReport) ==
  [op |-> "addMessage", role |-> role, content |-> content, type |-> type,
   fileOps |-> fileOps, mentorReport |-> mentorReport]

\* addMessage(role, content, type): the two metadata arguments left out
AddPlain(role, content, type) == AddMessage(role, content, type, Undefined, Undefined)

SaveIntake(rec) == [op |-> "saveIntake", intake |-> rec]
UpdateTitle(title) == [op |-> "updateTitle", title |-> title]

\* if (currentConversation) { the calls }
Persist(calls) == IF conversation THEN store \o calls ELSE store

(***************************************************************************)
(* handleSend.                                                             *)
(***************************************************************************)
NoType == "none"
UserMsg(id, text) == Msg(id, "user", text, NoType)

\* the reply of every branch of handleSend that answers locally: the user
\* message and one assistant message are appended and persisted
LocalReply(text, userId, replyId, reply, type, extraCalls) ==
  /\ messages' = messages \o <<UserMsg(userId, text), Msg(replyId, "assistant", reply, type)>>
  /\ store' = Persist(<<UpdateTitle("BODHIT: " \o Slice(text, 0, 48)),
                        AddPlain("user", text, NoType),
                        AddPlain("assistant", reply, type)>> \o extraCalls)
  /\ now' = now + 2

\* the body of the request streamChat sends: the role and content of all messages
RequestBody(msgs) == [k \in 1..Len(msgs) |-> [role |-> msgs[k].role, content |-> msgs[k].content]]

\* streamChat up to its await of fetch
StreamChatBegin(text) ==
  LET allMessages == Append(messages, UserMsg(now, text))
  IN /\ messages' = allMessages
     /\ isLoading' = TRUE
     /\ store' = Persist(<<UpdateTitle("BODHIT: " \o Slice(text, 0, 48)),
                           AddPlain("user", text, NoType)>>)
     /\ assistantContent' = ""
     /\ requests' = Append(requests, RequestBody(allMessages))
     /\ scPc' = "fetching"
     /\ now' = now + 2
     /\ UNCHANGED <<intake, intakeConfirmed, awaitingConfirmation, streamAll, streamRest,
                    decoderRest, cutInLine, textBuffer, assistantId>>

\* a refusal that also drops the wait for the confirmation
RefuseResetting(text) ==
  /\ LocalReply(text, now, now, RefusalText, "warning", <<>>)
  /\ awaitingConfirmation' = FALSE
  /\ UNCHANGED <<intake, intakeConfirmed, isLoading, requests, streamVars>>

\* the code-request branch
Refuse(text) ==
  /\ LocalReply(text, now, now, RefusalText, "warning", <<>>)
  /\ UNCHANGED <<intake, intakeConfirmed, awaitingConfirmation, isLoading, requests,
                 streamVars>>

\* the message parsed as an intake record: the record is held and echoed
EchoIntake(text, parsed) ==
  /\ intake' = parsed
  /\ awaitingConfirmation' = TRUE
  /\ LocalReply(text, now, now + 1, EchoText(parsed), "question", <<>>)
  /\ UNCHANGED intakeConfirmed

\* the reply yes to the echo
ConfirmIntake(text) ==
  /\ intakeConfirmed' = TRUE
  /\ awaitingConfirmation' = FALSE
  /\ LocalReply(text, now, now + 1, ConfirmedText, "explanation", <<SaveIntake(intake)>>)
  /\ UNCHANGED intake

\* a reply no that leaves the record where it is
RejectIntakeKeeping(text) ==
  /\ awaitingConfirmation' = FALSE
  /\ LocalReply(text, now, now + 1, ReenterText, "explanation", <<>>)
  /\ UNCHANGED <<intake, intakeConfirmed>>

\* a reply no that discards the record and goes on waiting
RejectIntakeWaiting(text) ==
  /\ intake' = Null
  /\ LocalReply(text, now, now + 1, ReenterText, "explanation", <<>>)
  /\ UNCHANGED <<intakeConfirmed, awaitingConfirmation>>

\* the reply no to the echo
RejectIntake(text) ==
  /\ intake' = Null
  /\ awaitingConfirmation' = FALSE
  /\ LocalReply(text, now, now + 1, ReenterText, "explanation", <<>>)
  /\ UNCHANGED intakeConfirmed

\* a re-prompt that goes on to wait for a confirmation
AskForIntakeAwaiting(text) ==
  /\ LocalReply(text, now, now + 1, HelperText, "question", <<>>)
  /\ awaitingConfirmation' = TRUE
  /\ UNCHANGED <<intake, intakeConfirmed>>

\* any other message while intake is not confirmed
AskForIntake(text) ==
  /\ LocalReply(text, now, now + 1, HelperText, "question", <<>>)
  /\ UNCHANGED <<intake, intakeConfirmed, awaitingConfirmation>>

\* the branches taken while intake is not confirmed
Negotiate(text) ==
  LET Branch(parsed) ==
        IF parsed # Null THEN EchoIntake(text, parsed)
        ELSE IF awaitingConfirmation /\ IsYes(text) /\ intake # Null THEN ConfirmIntake(text)
        ELSE IF awaitingConfirmation /\ IsNo(text) THEN RejectIntake(text)
        ELSE AskForIntake(text)
  IN /\ Branch(ParseIntakeFromText(text))
     /\ UNCHANGED <<isLoading, requests, streamVars>>

\* a handleSend that goes on negotiating the intake after its confirmation
HandleSendNegotiating(input) ==
  LET Send(text) ==
        /\ text # ""
        /\ ~isLoading
        /\ IF IsCodeRequest(text) THEN Refuse(text)
           ELSE IF ~intakeConfirmed \/ ParseIntakeFromText(text) # Null \/ IsNo(text)
             THEN Negotiate(text)
           ELSE StreamChatBegin(text)
  IN /\ Send(Trim(input))
     /\ UNCHANGED <<stageVars, propVars, fsCalls, dbCalls, toasts, applyVars, fnVars>>

\* a handleSend that does not look at isLoading
HandleSendWhileLoading(input) ==
  LET Send(text) ==
        /\ text # ""
        /\ IF IsCodeRequest(text) THEN Refuse(text)
           ELSE IF ~intakeConfirmed THEN Negotiate(text)
           ELSE StreamChatBegin(text)
  IN /\ Send(Trim(input))
     /\ UNCHANGED <<stageVars, propVars, fsCalls, dbCalls, toasts, applyVars, fnVars>>

\* handleSend with the text area holding input
HandleSend(input) ==
  LET Send(text) ==
        /\ text # ""
        /\ ~isLoading
        /\ IF IsCodeRequest(text) THEN Refuse(text)
           ELSE IF ~intakeConfirmed THEN Negotiate(text)
           ELSE StreamChatBegin(text)
  IN /\ Send(Trim(input))
     /\ UNCHANGED <<stageVars, propVars, fsCalls, dbCalls, toasts, applyVars, fnVars>>

(***************************************************************************)
(* streamChat from the answer of fetch on.                                 *)
(***************************************************************************)
Toast(title, description) == [title |-> title, description |-> description]

ConnectionErrorToast == Toast("Connection Error", "Failed to connect to AI. Please try again.")

\* toast of a response that is not ok, by its status
StatusToast(status) ==
  CASE status = 429 -> Toast("Rate Limited", "Too many requests. Please wait a moment and try again.")
    [] status = 402 -> Toast("Credits Exhausted", "AI credits have been used up. Please add more credits.")
    [] OTHER -> Toast("Error", "Failed to get response")

\* v ?? null
OrNull(v) == IF v.t \in {"undefined", "null"} THEN Null ELSE v

\* a streamChat that issues the update of an extracted MILESTONE_OPS block at
\* once, without waiting for the dialog
CallsAfterStreamApplying(content) ==
  LET Calls(milestoneOps) ==
        IF Truthy(milestoneOps)
        THEN <<[table |-> "milestones", op |-> "update", key |-> Undefined,
                payload |-> milestoneOps]>>
        ELSE <<>>
  IN Calls(ParsedOf(ExtractIfContent(content, "MILESTONE_OPS")))

\* a streamChat that inserts the report whether or not submissionId is set
CallsAfterStreamUnlinked(content) ==
  LET Calls(mentorReportExtract) ==
        IF Truthy(ParsedOf(mentorReportExtract))
        THEN <<[table |-> "mentor_reports", op |-> "insert", key |-> Undefined,
                payload |-> mentorReportExtract]>>
        ELSE <<>>
  IN Calls(ExtractIfContent(content, "MENTOR_REPORT"))

\* the supabase calls streamChat makes once the stream is over: the insert of
\* an extracted mentor report when the submissionId prop is set
CallsAfterStream(content) ==
  LET Calls(mentorReportExtract) ==
        IF Truthy(ParsedOf(mentorReportExtract)) /\ hasSubmission
        THEN <<[table |-> "mentor_reports", op |-> "insert", key |-> Undefined,
                payload |-> mentorReportExtract]>>
        ELSE <<>>
  IN Calls(ExtractIfContent(content, "MENTOR_REPORT"))

\* what follows the try/catch/finally of streamChat: extraction of the three
\* tags from content, staging, persistence of the message and of the report
AfterStream(content) ==
  LET Staged(fileOps, mentorReport, milestoneOps) ==
        /\ IF Truthy(fileOps)
           THEN pendingFileOps' = fileOps /\ showFileOpsDialog' = TRUE
           ELSE UNCHANGED <<pendingFileOps, showFileOpsDialog>>
        /\ IF Truthy(milestoneOps)
           THEN pendingMilestoneOps' = milestoneOps /\ showMilestoneOpsDialog' = TRUE
           ELSE UNCHANGED <<pendingMilestoneOps, showMilestoneOpsDialog>>
        /\ store' = IF conversation /\ content # ""
                    THEN Append(store, AddMessage("assistant", content, "explanation",
                                                  OrNull(fileOps), OrNull(mentorReport)))
                    ELSE store
  IN /\ Staged(ParsedOf(ExtractIfContent(content, "FILE_OPS")),
               ParsedOf(ExtractIfContent(content, "MENTOR_REPORT")),
               ParsedOf(ExtractIfContent(content, "MILESTONE_OPS")))
     /\ dbCalls' = dbCalls \o CallsAfterStream(content)

\* the response is not ok: a toast by status, and streamChat returns
FetchNotOk(status) ==
  /\ scPc = "fetching"
  /\ toasts' = Append(toasts, StatusToast(status))
  /\ isLoading' = FALSE
  /\ scPc' = "idle"
  /\ UNCHANGED <<messages, intake, intakeConfirmed, awaitingConfirmation, now, stageVars,
                 propVars, store, fsCalls, dbCalls, requests, streamAll, streamRest,
                 decoderRest, cutInLine, textBuffer, assistantContent, assistantId, applyVars, fnVars>>

\* fetch rejects, or the response has no body: the catch and what follows it
FetchThrows ==
  /\ scPc = "fetching"
  /\ toasts' = Append(toasts, ConnectionErrorToast)
  /\ isLoading' = FALSE
  /\ scPc' = "idle"
  /\ AfterStream(assistantContent)
  /\ UNCHANGED <<messages, intake, intakeConfirmed, awaitingConfirmation, now, opsLog,
                 propVars, fsCalls, requests, streamAll, streamRest,
                 decoderRest, cutInLine, textBuffer, assistantContent, assistantId, applyVars, fnVars>>

\* the response is ok and has a body: the reader is taken
FetchOk(body) ==
  /\ scPc = "fetching"
  /\ scPc' = "reading"
  /\ streamAll' = body
  /\ streamRest' = body
  /\ decoderRest' = ""
  /\ cutInLine' = FALSE
  /\ textBuffer' = ""
  /\ assistantId' = now + 1
  /\ now' = now + 2
  /\ UNCHANGED <<messages, intake, intakeConfirmed, awaitingConfirmation, isLoading,
                 stageVars, propVars, collabVars, assistantContent, applyVars, fnVars>>

\* reader.read() yields the next n bytes: one pass of the outer loop
StreamRead(n) ==
  /\ scPc = "reading"
  /\ n \in 1..Len(streamRest)
  /\ LET Looped(st) ==
           /\ textBuffer' = st.buf
           /\ assistantContent' = st.content
           /\ messages' = st.msgs
         Decoded(value) ==
           /\ decoderRest' = value.rest
           /\ Looped(ProcessChunk([buf |-> textBuffer, content |-> assistantContent,
                                   msgs |-> messages],
                                  value.text, assistantId))
     IN Decoded(Decode(decoderRest \o Slice(streamRest, 0, n)))
  /\ streamRest' = SliceFrom(streamRest, n)
  /\ cutInLine' = (cutInLine \/ (n < Len(streamRest) /\ CharAt(streamRest, n - 1) # "\n"))
  /\ UNCHANGED <<intake, intakeConfirmed, awaitingConfirmation, isLoading, now, stageVars,
                 propVars, collabVars, scPc, streamAll, assistantId, applyVars, fnVars>>

\* reader.read() reports done: the final flush, the finally, and what follows
StreamEnd ==
  /\ scPc = "reading"
  /\ streamRest = ""
  /\ LET Flushed(st) ==
           /\ assistantContent' = st.content
           /\ messages' = st.msgs
           /\ AfterStream(st.content)
     IN Flushed(FinalFlush([buf |-> textBuffer, content |-> assistantContent,
                            msgs |-> messages], assistantId))
  /\ isLoading' = FALSE
  /\ scPc' = "idle"
  /\ UNCHANGED <<intake, intakeConfirmed, awaitingConfirmation, now, opsLog, propVars,
                 fsCalls, toasts, requests, streamAll, streamRest, decoderRest, cutInLine, textBuffer,
                 assistantId, applyVars, fnVars>>

\* a failed read after which streamChat issues the request once more
StreamReadRetrying ==
  /\ scPc = "reading"
  /\ toasts' = Append(toasts, ConnectionErrorToast)
  /\ requests' = Append(requests, requests[Len(requests)])
  /\ scPc' = "fetching"
  /\ UNCHANGED <<messages, intake, intakeConfirmed, awaitingConfirmation, isLoading, now,
                 stageVars, propVars, store, fsCalls, dbCalls, streamAll, streamRest,
                 decoderRest, cutInLine, textBuffer, assistantContent, assistantId, applyVars,
                 fnVars>>

\* reader.read() rejects: the catch, the finally, and what follows
StreamReadThrows ==
  /\ scPc = "reading"
  /\ toasts' = Append(toasts, ConnectionErrorToast)
  /\ isLoading' = FALSE
  /\ scPc' = "idle"
  /\ AfterStream(assistantContent)
  /\ UNCHANGED <<messages, intake, intakeConfirmed, awaitingConfirmation, now, opsLog,
                 propVars, fsCalls, requests, streamAll, streamRest, decoderRest, cutInLine, textBuffer,
                 assistantContent, assistantId, applyVars, fnVars>>

\* startNewConversation, called on mount, has set currentConversation
ConversationStarts ==
  /\ ~conversation
  /\ conversation' = TRUE
  /\ UNCHANGED <<sessVars, stageVars, hasFs, hasSubmission, collabVars, streamVars,
                 applyVars, fnVars>>

(***************************************************************************)
(* The Operation Dispatcher: applyFileOps and applyMilestoneOps.           *)
(***************************************************************************)
\* { ...op }: the own members of an object, the indexed elements of an array or
\* a string, nothing of null, a number or a boolean
Spread(op) ==
  CASE op.t = "obj" -> op.v
    [] op.t = "arr" -> [k \in {NatToString(j - 1) : j \in 1..Len(op.v)} |->
                          op.v[(CHOOSE j \in 1..Len(op.v) : NatToString(j - 1) = k)]]
    [] op.t = "str" -> [k \in {NatToString(j - 1) : j \in 1..Len(op.v)} |->
                          JStr(CharAt(op.v, (CHOOSE j \in 1..Len(op.v) : NatToString(j - 1) = k) - 1))]
    [] OTHER -> EmptyObj

\* { ...op, status }
Result(op, status) == JObj(("status" :> JStr(status)) @@ Spread(op))

\* { ...op, status: "error", error: String(err) }
ErrorResult(op, cause) ==
  JObj(("status" :> JStr("error")) @@ ("error" :> JStr(cause)) @@ Spread(op))

StatusOf(entry) == entry.v["status"].v

\* String(err) of the TypeError of reading .action of null
NullOpCause == "TypeError: Cannot read properties of null (reading 'action')"
\* String(err) of an exception of the file system or of the download
FsCause == "Error: file system failure"
\* String(err) of the error object a supabase update returns
UpdateErrorCause == "[object Object]"
\* String(err) of a supabase update whose promise rejects
UpdateRejectCause == "TypeError: Failed to fetch"

FsCall(fn, args, threw) == [fn |-> fn, args |-> args, threw |-> threw]

\* the collaborator calls one file operation makes, in order, when none throws
FileOpCalls(op, time) ==
  LET action == IF op.t \in {"null", "undefined"} THEN Undefined ELSE Member(op, "action")
  IN CASE action = JStr("create") ->
            IF hasFs
            THEN <<FsCall("createFile", <<Member(op, "path"),
                                          OrElse(Member(op, "content"), JStr("")),
                                          OrElse(Member(op, "language"), JStr("text"))>>, FALSE)>>
            ELSE <<>>
       [] action = JStr("update") ->
            IF hasFs
            THEN <<FsCall("updateFile", <<Member(op, "path"),
                                          OrElse(Member(op, "content"), JStr(""))>>, FALSE)>>
            ELSE <<>>
       [] action = JStr("delete") ->
            IF hasFs
            THEN <<FsCall("deleteFile", <<Member(op, "path"),
                                          JBool(Truthy(Member(op, "recursive")))>>, FALSE)>>
            ELSE <<>>
       [] action = JStr("rename") ->
            IF hasFs
            THEN <<FsCall("renameFile", <<Member(op, "path"),
                                          OrElse(Member(op, "newName"), Member(op, "newPath"))>>, FALSE)>>
            ELSE <<>>
       [] action = JStr("export") ->
            (IF hasFs THEN <<FsCall("exportProject", <<>>, FALSE)>> ELSE <<>>)
            \o <<FsCall("download",
                        <<OrElse(Member(op, "filename"),
                                 JStr("bodhit-project-" \o NatToString(time) \o ".json"))>>,
                        FALSE)>>
       [] OTHER -> <<>>

FileActions == {JStr("create"), JStr("update"), JStr("delete"), JStr("rename"), JStr("export")}

\* one pass that takes an action it does not know for a failure
ApplyOneFileOpStrict(op, throws, time) ==
  LET Called(calls) ==
        IF throws /\ Len(calls) > 0
        THEN [entry |-> ErrorResult(op, FsCause),
              calls |-> <<[calls[1] EXCEPT !.threw = TRUE]>>]
        ELSE [entry |-> Result(op, "ok"), calls |-> calls]
  IN IF op.t \in {"null", "undefined"}
     THEN [entry |-> ErrorResult(op, NullOpCause), calls |-> <<>>]
     ELSE IF Member(op, "action") \notin FileActions
     THEN [entry |-> ErrorResult(op, "Error: unknown action"), calls |-> <<>>]
     ELSE Called(FileOpCalls(op, time))

\* one pass of the for loop of applyFileOps: the result entry of op and the
\* calls made; throws says that the first collaborator call of op throws
ApplyOneFileOp(op, throws, time) ==
  LET Called(calls) ==
        IF throws /\ Len(calls) > 0
        THEN [entry |-> ErrorResult(op, FsCause),
              calls |-> <<[calls[1] EXCEPT !.threw = TRUE]>>]
        ELSE [entry |-> Result(op, "ok"), calls |-> calls]
  IN IF op.t \in {"null", "undefined"}
     THEN [entry |-> ErrorResult(op, NullOpCause), calls |-> <<>>]
     ELSE IF Member(op, "action") \notin FileActions
     THEN [entry |-> Result(op, "unknown-action"), calls |-> <<>>]
     ELSE Called(FileOpCalls(op, time))

\* a normalisation that takes a payload that is no array for an empty batch
NormalizeArraysOnly(ops) == IF IsArray(ops) THEN ops.v ELSE <<>>

\* Array.isArray(ops) ? ops : [ops]
Normalize(ops) == IF IsArray(ops) THEN ops.v ELSE <<ops>>

RECURSIVE FileOpsLoopAborting(_, _, _, _)
\* a for loop that an operation's exception ends
FileOpsLoopAborting(operations, env, k, acc) ==
  LET Pushed(r) ==
        FileOpsLoopAborting(operations, env, k + 1,
                            [applied |-> Append(acc.applied, r.entry),
                             calls |-> acc.calls \o r.calls])
  IN IF k > Len(operations) THEN acc
     ELSE IF Len(acc.applied) > 0 /\ StatusOf(acc.applied[Len(acc.applied)]) = "error" THEN acc
     ELSE Pushed(ApplyOneFileOp(operations[k], env[k], now))

RECURSIVE FileOpsLoop(_, _, _, _)
\* the for loop of applyFileOps from operation k on, over acc = [applied, calls]
FileOpsLoop(operations, env, k, acc) ==
  LET Pushed(r) ==
        FileOpsLoop(operations, env, k + 1,
                    [applied |-> Append(acc.applied, r.entry), calls |-> acc.calls \o r.calls])
  IN IF k > Len(operations) THEN acc
     ELSE Pushed(ApplyOneFileOp(operations[k], env[k], now))

\* the environments of a batch: which operations' collaborator call throws
FileEnvs(operations) ==
  {env \in [1..Len(operations) -> BOOLEAN] :
     \A k \in 1..Len(operations) : env[k] => Len(FileOpCalls(operations[k], now)) > 0}

\* the Apply button of the file-operations dialog: applyFileOps(pendingFileOps)
ApplyFileOps(env) ==
  /\ showFileOpsDialog
  /\ Truthy(pendingFileOps)
  /\ env \in FileEnvs(Normalize(pendingFileOps))
  /\ LET Logged(done) ==
           /\ opsLog' = Append(opsLog, [timestamp |-> now, ops |-> done.applied])
           /\ fsCalls' = fsCalls \o done.calls
     IN Logged(FileOpsLoop(Normalize(pendingFileOps), env, 1,
                           [applied |-> <<>>, calls |-> <<>>]))
  /\ showFileOpsDialog' = FALSE
  /\ pendingFileOps' = Null
  /\ applyEnv' = [ops |-> Normalize(pendingFileOps), env |-> env]
  /\ UNCHANGED <<sessVars, pendingMilestoneOps, showMilestoneOpsDialog, propVars, store,
                 dbCalls, toasts, requests, streamVars, msRuns, msDone, fnVars>>

\* the Cancel button of the file-operations dialog
CancelFileOps ==
  /\ showFileOpsDialog
  /\ showFileOpsDialog' = FALSE
  /\ pendingFileOps' = Null
  /\ UNCHANGED <<sessVars, pendingMilestoneOps, showMilestoneOpsDialog, opsLog, propVars,
                 collabVars, streamVars, applyVars, fnVars>>

\* the dialog is dismissed (onOpenChange(false)): Escape, or a click outside
DismissFileOps ==
  /\ showFileOpsDialog
  /\ showFileOpsDialog' = FALSE
  /\ UNCHANGED <<sessVars, pendingFileOps, pendingMilestoneOps, showMilestoneOpsDialog,
                 opsLog, propVars, collabVars, streamVars, applyVars, fnVars>>

\* the members of op among keys that the code copies into the update payload:
\* if (op.k) payload.k = op.k, and for progress typeof op.progress === "number"
PayloadOf(op, keys) ==
  LET given == {k \in keys : IF k = "progress" THEN Member(op, k).t = "num"
                             ELSE Truthy(Member(op, k))}
  IN JObj([k \in given |-> Member(op, k)])

MilestoneFields == {"status", "title", "description", "due_date"}
TaskFields == {"status", "progress", "title", "description"}

DbCall(table, op, key, payload) == [table |-> table, op |-> op, key |-> key, payload |-> payload]

\* one operation that sends its update whether or not it names its row
MilestoneStepUnchecked(op) ==
  LET action == IF op.t \in {"null", "undefined"} THEN Undefined ELSE Member(op, "action")
  IN IF op.t \in {"null", "undefined"}
     THEN [kind |-> "entry", entry |-> ErrorResult(op, NullOpCause)]
     ELSE IF action = JStr("update_milestone")
     THEN [kind |-> "await",
           call |-> DbCall("milestones", "update", Member(op, "milestone_id"),
                           PayloadOf(op, MilestoneFields))]
     ELSE IF action = JStr("update_task")
     THEN [kind |-> "await",
           call |-> DbCall("tasks", "update", Member(op, "task_id"),
                           PayloadOf(op, TaskFields))]
     ELSE [kind |-> "entry", entry |-> Result(op, "unknown-action")]

\* what one pass of the for loop of applyMilestoneOps does with op before any
\* await: a result entry (kind "entry"), or an update it issues and awaits
MilestoneStep(op) ==
  LET action == IF op.t \in {"null", "undefined"} THEN Undefined ELSE Member(op, "action")
  IN IF op.t \in {"null", "undefined"}
     THEN [kind |-> "entry", entry |-> ErrorResult(op, NullOpCause)]
     ELSE IF action = JStr("update_milestone")
     THEN IF ~Truthy(Member(op, "milestone_id"))
          THEN [kind |-> "entry", entry |-> ErrorResult(op, "Error: milestone_id is required")]
          ELSE [kind |-> "await",
                call |-> DbCall("milestones", "update", Member(op, "milestone_id"),
                                PayloadOf(op, MilestoneFields))]
     ELSE IF action = JStr("update_task")
     THEN IF ~Truthy(Member(op, "task_id"))
          THEN [kind |-> "entry", entry |-> ErrorResult(op, "Error: task_id is required")]
          ELSE [kind |-> "await",
                call |-> DbCall("tasks", "update", Member(op, "task_id"),
                                PayloadOf(op, TaskFields))]
     ELSE [kind |-> "entry", entry |-> Result(op, "unknown-action")]

RECURSIVE MilestoneLoop(_, _)
\* the for loop of one applyMilestoneOps call, run = [ops, idx, results,
\* outcomes], from operation idx until it awaits an update or the batch is
\* finished; outcomes keeps what supabase answered for each operation so far,
\* "none" for an operation that issued no update
MilestoneLoop(run, calls) ==
  LET Stepped(step) ==
        IF step.kind = "await"
        THEN [run |-> run, calls |-> Append(calls, step.call), finished |-> FALSE]
        ELSE MilestoneLoop([run EXCEPT !.idx = run.idx + 1,
                                       !.results = Append(run.results, step.entry),
                                       !.outcomes = Append(run.outcomes, "none")],
                           calls)
  IN IF run.idx > Len(run.ops) THEN [run |-> run, calls |-> calls, finished |-> TRUE]
     ELSE Stepped(MilestoneStep(run.ops[run.idx]))

RECURSIVE CountErrorsOnly(_)
\* a count of the failed that leaves out the unknown actions
CountErrorsOnly(results) ==
  IF Len(results) = 0 THEN 0
  ELSE (IF StatusOf(Head(results)) = "error" THEN 1 ELSE 0) + CountErrorsOnly(Tail(results))

RECURSIVE CountNotOk(_)
\* results.filter((r) => r.status !== "ok").length
CountNotOk(results) ==
  IF Len(results) = 0 THEN 0
  ELSE (IF StatusOf(Head(results)) # "ok" THEN 1 ELSE 0) + CountNotOk(Tail(results))

\* the toast at the end of applyMilestoneOps
MilestoneToast(results) ==
  LET Counted(failed) ==
        IF failed # 0
        THEN Toast("Milestone ops completed with warnings",
                   NatToString(Len(results) - failed) \o " succeeded, "
                   \o NatToString(failed) \o " failed")
        ELSE Toast("Milestone ops applied", NatToString(Len(results)) \o " changes applied")
  IN Counted(CountNotOk(results))

\* an applyMilestoneOps call went on to r = [run, calls, finished]; others are
\* the suspended calls that remain
MilestoneProgress(r, others) ==
  /\ dbCalls' = dbCalls \o r.calls
  /\ IF r.finished
     THEN /\ toasts' = Append(toasts, MilestoneToast(r.run.results))
          /\ showMilestoneOpsDialog' = FALSE
          /\ pendingMilestoneOps' = Null
          /\ msDone' = Append(msDone, r.run)
          /\ msRuns' = others
     ELSE /\ msRuns' = Append(others, r.run)
          /\ UNCHANGED <<toasts, showMilestoneOpsDialog, pendingMilestoneOps, msDone>>

\* the Apply Updates button: applyMilestoneOps(pendingMilestoneOps) up to its
\* first await
ApplyMilestoneOps ==
  /\ showMilestoneOpsDialog
  /\ Truthy(pendingMilestoneOps)
  /\ Len(msRuns) < MaxApplyRuns
  /\ MilestoneProgress(MilestoneLoop([ops |-> Normalize(pendingMilestoneOps), idx |-> 1,
                                      results |-> <<>>, outcomes |-> <<>>], <<>>),
                       msRuns)
  /\ UNCHANGED <<sessVars, pendingFileOps, showFileOpsDialog, opsLog, propVars, store,
                 fsCalls, requests, streamVars, applyEnv, fnVars>>

UpdateOutcomes == {"ok", "error", "reject"}

\* the entry of an awaited update by what supabase answered
AwaitedResult(op, outcome) ==
  CASE outcome = "ok" -> Result(op, "ok")
    [] outcome = "error" -> ErrorResult(op, UpdateErrorCause)
    [] OTHER -> ErrorResult(op, UpdateRejectCause)

\* sequence q without its element k
RemoveAt(q, k) == SubSeq(q, 1, k - 1) \o SubSeq(q, k + 1, Len(q))

\* the update awaited by suspended call k returns: the call resumes and runs to
\* its next await or to its end
MilestoneUpdateReturns(k, outcome) ==
  /\ k \in 1..Len(msRuns)
  /\ outcome \in UpdateOutcomes
  /\ LET run == msRuns[k]
         resumed == [run EXCEPT !.idx = run.idx + 1,
                                !.results = Append(run.results,
                                                   AwaitedResult(run.ops[run.idx], outcome)),
                                !.outcomes = Append(run.outcomes, outcome)]
     IN MilestoneProgress(MilestoneLoop(resumed, <<>>), RemoveAt(msRuns, k))
  /\ UNCHANGED <<sessVars, pendingFileOps, showFileOpsDialog, opsLog, propVars, store,
                 fsCalls, requests, streamVars, applyEnv, fnVars>>

\* the Cancel button of the milestone dialog
CancelMilestoneOps ==
  /\ showMilestoneOpsDialog
  /\ showMilestoneOpsDialog' = FALSE
  /\ pendingMilestoneOps' = Null
  /\ UNCHANGED <<sessVars, pendingFileOps, showFileOpsDialog, opsLog, propVars,
                 collabVars, streamVars, applyVars, fnVars>>

\* the milestone dialog is dismissed (onOpenChange(false))
DismissMilestoneOps ==
  /\ showMilestoneOpsDialog
  /\ showMilestoneOpsDialog' = FALSE
  /\ UNCHANGED <<sessVars, pendingFileOps, showFileOpsDialog, pendingMilestoneOps, opsLog,
                 propVars, collabVars, streamVars, applyVars, fnVars>>

(***************************************************************************)
(* The event stream the transport delivers: one data line per delta, in   *)
(* the framing the read loop expects.                                      *)
(***************************************************************************)
RECURSIVE EscapeJson(_)
\* the JSON string escapes of the characters of s
EscapeJson(s) ==
  IF Len(s) <= 1
  THEN (CASE s = "\"" -> "\\\""
          [] s = "\\" -> "\\\\"
          [] s = "\n" -> "\\n"
          [] s = "\r" -> "\\r"
          [] s = "\t" -> "\\t"
          [] OTHER -> s)
  ELSE EscapeJson(Slice(s, 0, Len(s) \div 2)) \o EscapeJson(SliceFrom(s, Len(s) \div 2))

\* the data line of one delta
DeltaLine(content) ==
  DataMarker \o "{\"choices\":[{\"delta\":{\"content\":\"" \o EscapeJson(content) \o "\"}}]}"

RECURSIVE DeltaLines(_)
DeltaLines(deltas) ==
  IF Len(deltas) = 0 THEN "" ELSE DeltaLine(Head(deltas)) \o "\n\n" \o DeltaLines(Tail(deltas))

\* a whole response body: the deltas, then the [DONE] line
ResponseBody(deltas) == DeltaLines(deltas) \o DataMarker \o DoneSentinel \o "\n\n"

(***************************************************************************)
(* The session: what the user types, what the transport answers.           *)
(***************************************************************************)
\* messages the user may send
MaxSends == 3

IntakeA == "Project idea: Todo app\nTech stack: React\nSkill level: beginner\nTimeline: 2 weeks"

UserInputs == {IntakeA, " YES\n", "no", "yes please", "Please GIVE me the code"}

FileOpsMixed == "[{\"action\":\"delete\",\"path\":\"/a\",\"recursive\":true},null,{\"action\":\"update_task\"}]"
MilestoneOpsA == "[{\"action\":\"update_task\",\"progress\":50},{\"action\":\"update_milestone\",\"milestone_id\":\"m1\",\"status\":\"done\"}]"
MentorReportA == "{\"score\":7}"

Block(tag, body) == Fence \o tag \o "\n" \o body \o "\n" \o Fence

\* bodies the transport may deliver
Responses ==
  {ResponseBody(<<"Hi", " there">>),
   ResponseBody(<<"Do:\n" \o Block("FILE_OPS", FileOpsMixed),
                  Block("MILESTONE_OPS", MilestoneOpsA) \o Block("MENTOR_REPORT", MentorReportA)>>)}

\* the sizes of the chunks the transport may deliver in a session: the whole
\* rest, or the rest up to its first line end
SessionChunks(rest) ==
  {Len(rest)} \cup (IF IndexOf(rest, "\n", 0) = -1 THEN {} ELSE {IndexOf(rest, "\n", 0) + 1})

HttpErrors == {429, 402, 500}

RECURSIVE UserCount(_)
UserCount(msgs) ==
  IF Len(msgs) = 0 THEN 0
  ELSE (IF Head(msgs).role = "user" THEN 1 ELSE 0) + UserCount(Tail(msgs))

SessInit ==
  /\ messages = <<Msg(1, "assistant", WelcomeText, "explanation")>>
  /\ intake = Null
  /\ intakeConfirmed = FALSE
  /\ awaitingConfirmation = FALSE
  /\ isLoading = FALSE
  /\ now = 2

StageInit ==
  /\ pendingFileOps = Null
  /\ showFileOpsDialog = FALSE
  /\ pendingMilestoneOps = Null
  /\ showMilestoneOpsDialog = FALSE
  /\ opsLog = <<>>

CollabInit ==
  /\ store = <<>>
  /\ fsCalls = <<>>
  /\ dbCalls = <<>>
  /\ toasts = <<>>
  /\ requests = <<>>

StreamInit ==
  /\ scPc = "idle"
  /\ streamAll = ""
  /\ streamRest = ""
  /\ decoderRest = ""
  /\ cutInLine = FALSE
  /\ textBuffer = ""
  /\ assistantContent = ""
  /\ assistantId = 0

ApplyInit ==
  /\ msRuns = <<>>
  /\ msDone = <<>>
  /\ applyEnv = [ops |-> <<>>, env |-> <<>>]

FnInit ==
  /\ fnIn = <<>>
  /\ fnOut = <<>>

Init ==
  /\ SessInit /\ StageInit /\ CollabInit /\ StreamInit /\ ApplyInit /\ FnInit
  /\ conversation = FALSE
  /\ hasFs \in BOOLEAN
  /\ hasSubmission \in BOOLEAN

Next ==
  \/ \E input \in UserInputs : UserCount(messages) < MaxSends /\ HandleSend(input)
  \/ \E status \in HttpErrors : FetchNotOk(status)
  \/ FetchThrows
  \/ \E body \in Responses : FetchOk(body)
  \/ \E n \in SessionChunks(streamRest) : StreamRead(n)
  \/ StreamEnd
  \/ StreamReadThrows
  \/ ConversationStarts
  \/ \E env \in FileEnvs(Normalize(pendingFileOps)) : ApplyFileOps(env)
  \/ CancelFileOps
  \/ DismissFileOps
  \/ ApplyMilestoneOps
  \/ \E k \in 1..Len(msRuns), outcome \in UpdateOutcomes : MilestoneUpdateReturns(k, outcome)
  \/ CancelMilestoneOps
  \/ DismissMilestoneOps

Spec == Init /\ [][Next]_vars

(***************************************************************************)
(* The Stream Ingestor under every division of a stream into chunks.       *)
(***************************************************************************)
\* streams of data lines, comment lines, blank lines, [DONE] lines, lines of
\* other fields and data lines whose payload does not parse, ended by "\n" or
\* by "\r\n", the last line ended or not
StreamTexts ==
  {DeltaLine("a") \o "\n\n" \o DeltaLine("b") \o "\n\n" \o DataMarker \o DoneSentinel \o "\n\n",
   DeltaLine("a") \o "\r\n: ping\r\n\r\n" \o DeltaLine("b"),
   DeltaLine("a") \o "\n" \o DataMarker \o "{\"choices\"\n" \o DeltaLine("b") \o "\n",
   DataMarker \o DoneSentinel \o "\n" \o DeltaLine("a^%") \o "\nevent: x\n" \o DeltaLine("b"),
   DataMarker \o "\n" \o DataMarker \o "{}\r\n" \o DataMarker \o "null\n" \o DeltaLine("a") \o "\r\n",
   DataMarker \o "{\"choices\":[{\"delta\":{\"content\":7}}]}\n" \o DataMarker \o "{\"a\n"}

\* the session in which the intake was given and confirmed and a third message
\* was sent, at the moment the reader of a response among bodies is taken
ReadingOf(bodies) ==
  /\ messages = <<Msg(1, "assistant", WelcomeText, "explanation"),
                  UserMsg(2, IntakeA),
                  Msg(3, "assistant", EchoText(ParseIntakeFromText(IntakeA)), "question"),
                  UserMsg(4, "YES"),
                  Msg(5, "assistant", ConfirmedText, "explanation"),
                  UserMsg(6, "yes please")>>
  /\ intake = ParseIntakeFromText(IntakeA)
  /\ intakeConfirmed = TRUE
  /\ awaitingConfirmation = FALSE
  /\ isLoading = TRUE
  /\ now = 10
  /\ StageInit
  /\ conversation = FALSE /\ hasSubmission = TRUE
  /\ store = <<>> /\ fsCalls = <<>> /\ dbCalls = <<>> /\ toasts = <<>>
  /\ requests = <<RequestBody(messages)>>
  /\ scPc = "reading"
  /\ streamAll \in bodies
  /\ streamRest = streamAll
  /\ decoderRest = ""
  /\ cutInLine = FALSE
  /\ textBuffer = ""
  /\ assistantContent = ""
  /\ assistantId = 9
  /\ ApplyInit /\ FnInit

ReadingInit == ReadingOf(StreamTexts) /\ hasFs = TRUE

NextStream ==
  \/ \E n \in 1..Len(streamRest) : StreamRead(n)
  \/ StreamEnd

SpecStream == ReadingInit /\ [][NextStream]_vars

\* assistantContent at the end of streamChat when the bytes come in one chunk
WholeContent(bytes) ==
  FinalFlush(ProcessChunk([buf |-> "", content |-> "", msgs |-> <<>>],
                          Decode(bytes).text, 0), 0).content

\* assistantContent at the end of streamChat when, from the current state on,
\* the bytes not yet delivered come in one chunk
ContentIfRestInOneChunk ==
  LET st == [buf |-> textBuffer, content |-> assistantContent, msgs |-> messages]
  IN IF streamRest = "" THEN FinalFlush(st, assistantId).content
     ELSE FinalFlush(ProcessChunk(st, Decode(decoderRest \o streamRest).text, assistantId),
                     assistantId).content

\* C1: however the stream text was divided into chunks, once the read loop and
\* the final flush have run assistantContent is what it is when the whole text
\* comes in one chunk; and at every point of the read loop, delivering the
\* rest in one chunk leads to that same content.
C1_ChunkBoundaryInvariance ==
  /\ scPc = "idle" => assistantContent = WholeContent(streamAll)
  /\ scPc = "reading" => ContentIfRestInOneChunk = WholeContent(streamAll)

\* a stream with an unparseable data line in it was delivered with a chunk
\* ending inside a line, and streamChat has finished with both deltas
C1_Witness ==
  /\ scPc = "idle"
  /\ cutInLine
  /\ streamAll = DeltaLine("a") \o "\n" \o DataMarker \o "{\"choices\"\n" \o DeltaLine("b") \o "\n"
  /\ assistantContent = "ab"

(***************************************************************************)
(* The confirmation gate.                                                  *)
(***************************************************************************)
IsUpdateCall(c) == c.table \in {"milestones", "tasks"}

\* the updates of milestones and tasks among the supabase calls issued
UpdateCalls(calls) == SelectSeq(calls, IsUpdateCall)

\* the elements this step appended to the sequence q
Added(q, qNext) == SubSeq(qNext, Len(q) + 1, Len(qNext))

\* c is the update some operation of the batch ops issues
IsUpdateOf(ops, c) ==
  \E j \in 1..Len(ops) : MilestoneStep(ops[j]).kind = "await" /\ MilestoneStep(ops[j]).call = c

\* C2: a step that calls the file system or the download is an applyFileOps
\* run from the open dialog on the staged payload, and its calls are those of
\* the payload's operations; a step that issues a milestones or tasks update
\* belongs to an applyMilestoneOps run, every such run was started from the
\* open dialog on the staged payload, and the update is that of one of the
\* payload's operations; a step that stages a payload calls neither.
C2_ConfirmationGate ==
  [][/\ fsCalls' # fsCalls =>
          /\ showFileOpsDialog /\ Truthy(pendingFileOps)
          /\ \E env \in FileEnvs(Normalize(pendingFileOps)) :
               fsCalls' = fsCalls \o FileOpsLoop(Normalize(pendingFileOps), env, 1,
                                                 [applied |-> <<>>, calls |-> <<>>]).calls
     /\ \A k \in 1..Len(msRuns') :
          msRuns'[k].ops \notin {msRuns[j].ops : j \in 1..Len(msRuns)} =>
            /\ showMilestoneOpsDialog /\ Truthy(pendingMilestoneOps)
            /\ msRuns'[k].ops = Normalize(pendingMilestoneOps)
     /\ UpdateCalls(dbCalls') # UpdateCalls(dbCalls) =>
          /\ UpdateCalls(dbCalls) \o UpdateCalls(Added(dbCalls, dbCalls')) = UpdateCalls(dbCalls')
          /\ \A k \in 1..Len(UpdateCalls(Added(dbCalls, dbCalls'))) :
               \/ /\ showMilestoneOpsDialog /\ Truthy(pendingMilestoneOps)
                  /\ IsUpdateOf(Normalize(pendingMilestoneOps),
                                UpdateCalls(Added(dbCalls, dbCalls'))[k])
               \/ \E r \in 1..Len(msRuns) :
                    IsUpdateOf(msRuns[r].ops, UpdateCalls(Added(dbCalls, dbCalls'))[k])
     /\ (\/ pendingFileOps' \notin {pendingFileOps, Null}
         \/ pendingMilestoneOps' \notin {pendingMilestoneOps, Null}) =>
          fsCalls' = fsCalls /\ UpdateCalls(dbCalls') = UpdateCalls(dbCalls)
    ]_vars

\* both payloads of one response were staged and then applied from their
\* dialogs: the file system was called and an update was issued
C2_Witness ==
  /\ fsCalls # <<>>
  /\ UpdateCalls(dbCalls) # <<>>
  /\ opsLog # <<>>
  /\ pendingFileOps = Null

(***************************************************************************)
(* The Operation Dispatcher on every batch of a few operations.            *)
(***************************************************************************)
\* operations an array the response stages may hold
MaxOps == 2

\* file operations as a response writes them: the five actions, an action the
\* dispatcher does not know, a milestone action, null, and a number
FileOpTexts ==
  {"{\"action\":\"create\",\"path\":\"/a\",\"status\":\"draft\"}",
   "{\"action\":\"update\",\"path\":\"/b\",\"content\":\"x\"}",
   "{\"action\":\"delete\",\"path\":\"/c\"}",
   "{\"action\":\"rename\",\"path\":\"/d\",\"newPath\":\"/e\"}",
   "{\"action\":\"export\"}",
   "{\"action\":\"noop\"}",
   "{\"action\":\"update_task\",\"task_id\":\"t1\"}",
   "null",
   "7"}

\* milestone operations as a response writes them: the two actions with and
\* without their id, an update that empties one field, sets another and names
\* a field of the other table, an action the dispatcher does not know, and null
MilestoneOpTexts ==
  {"{\"action\":\"update_milestone\",\"milestone_id\":\"m1\",\"status\":\"done\"}",
   "{\"action\":\"update_milestone\",\"title\":\"t\"}",
   "{\"action\":\"update_task\",\"task_id\":\"t1\",\"progress\":50}",
   "{\"action\":\"update_task\"}",
   "{\"action\":\"update_milestone\",\"milestone_id\":\"m2\",\"description\":\"\",\"due_date\":\"d\",\"progress\":5}",
   "{\"action\":\"create\"}",
   "null"}

RECURSIVE JoinTexts(_, _)
\* the texts of q with sep between them
JoinTexts(q, sep) ==
  IF Len(q) = 0 THEN ""
  ELSE IF Len(q) = 1 THEN q[1]
  ELSE q[1] \o sep \o JoinTexts(Tail(q), sep)

\* the payloads of a block: one operation, or an array of up to MaxOps
PayloadTexts(opTexts) ==
  opTexts \cup {"[" \o JoinTexts(q, ",") \o "]" : q \in UNION {[1..m -> opTexts] : m \in 0..MaxOps}}

\* responses that carry one block of operations
ApplyBodies ==
  {ResponseBody(<<"Plan:\n" \o Block("FILE_OPS", p)>>) : p \in PayloadTexts(FileOpTexts)}
  \cup {ResponseBody(<<Block("MILESTONE_OPS", p)>>) : p \in PayloadTexts(MilestoneOpTexts)}

StagingInit == ReadingOf(ApplyBodies) /\ hasFs \in BOOLEAN

NextApply ==
  \/ \E n \in {Len(streamRest)} : StreamRead(n)
  \/ StreamEnd
  \/ \E env \in FileEnvs(Normalize(pendingFileOps)) : ApplyFileOps(env)
  \/ ApplyMilestoneOps
  \/ \E k \in 1..Len(msRuns), outcome \in UpdateOutcomes : MilestoneUpdateReturns(k, outcome)

SpecApply == StagingInit /\ [][NextApply]_vars

\* the results of applyFileOps on the batch ops when the collaborator calls of
\* the operations marked in env throw
FileBatchResults(ops, env) ==
  FileOpsLoop(ops, env, 1, [applied |-> <<>>, calls |-> <<>>]).applied

RECURSIVE MilestoneBatchResults(_, _)
\* the results of the applyMilestoneOps call run when the update of operation
\* i is answered with outcomes[i]
MilestoneBatchResults(run, outcomes) ==
  LET Went(r) ==
        IF r.finished THEN r.run.results
        ELSE MilestoneBatchResults(
               [r.run EXCEPT !.idx = r.run.idx + 1,
                             !.results = Append(r.run.results,
                                                AwaitedResult(r.run.ops[r.run.idx],
                                                              outcomes[r.run.idx]))],
               outcomes)
  IN Went(MilestoneLoop(run, <<>>))

\* an operation that throws of itself: null, or an update without its id
ThrowsOfItself(op) ==
  \/ op.t = "null"
  \/ Member(op, "action") = JStr("update_milestone") /\ ~Truthy(Member(op, "milestone_id"))
  \/ Member(op, "action") = JStr("update_task") /\ ~Truthy(Member(op, "task_id"))

\* the batch ops with operation j replaced, when it throws of itself, by an
\* operation that does not
WithoutThrowAt(ops, j) ==
  [ops EXCEPT ![j] = IF ThrowsOfItself(@) THEN JObj(EmptyObj) ELSE @]

\* String(err) of what operation op of a file batch threw
FileCauseOf(op) == IF op.t = "null" THEN NullOpCause ELSE FsCause

\* String(err) of what operation op of a milestone batch threw
MilestoneCauseOf(op, outcome) ==
  CASE op.t = "null" -> NullOpCause
    [] outcome = "error" -> UpdateErrorCause
    [] outcome = "reject" -> UpdateRejectCause
    [] Member(op, "action") = JStr("update_milestone") -> "Error: milestone_id is required"
    [] OTHER -> "Error: task_id is required"

RECURSIVE CallsOfEach(_, _, _)
\* the collaborator calls of the operations k.. of a file batch, each taken alone
CallsOfEach(ops, env, k) ==
  IF k > Len(ops) THEN <<>>
  ELSE ApplyOneFileOp(ops[k], env[k], now).calls \o CallsOfEach(ops, env, k + 1)

IsErrorEntry(entry, cause) ==
  /\ StatusOf(entry) = "error"
  /\ "error" \in DOMAIN entry.v
  /\ entry.v["error"] = JStr(cause)

\* fault isolation of a finished applyFileOps: operations ops, throws env, results res
FileFaultsIsolated(ops, env, res) ==
  \A j \in 1..Len(ops) :
    (env[j] \/ ops[j].t = "null") =>
      /\ Len(res) = Len(ops)
      /\ IsErrorEntry(res[j], FileCauseOf(ops[j]))
      /\ fsCalls = CallsOfEach(ops, env, 1)
      /\ \A i \in 1..Len(ops) \ {j} :
           StatusOf(res[i]) =
             StatusOf(FileBatchResults(WithoutThrowAt(ops, j), [env EXCEPT ![j] = FALSE])[i])

\* fault isolation of a finished applyMilestoneOps call
MilestoneFaultsIsolated(run) ==
  \A j \in 1..Len(run.ops) :
    (ThrowsOfItself(run.ops[j]) \/ run.outcomes[j] \in {"error", "reject"}) =>
      /\ Len(run.results) = Len(run.ops)
      /\ IsErrorEntry(run.results[j], MilestoneCauseOf(run.ops[j], run.outcomes[j]))
      /\ \A i \in (j + 1)..Len(run.ops) :
           MilestoneStep(run.ops[i]).kind = "await" =>
             \E c \in 1..Len(dbCalls) : dbCalls[c] = MilestoneStep(run.ops[i]).call
      /\ \A i \in 1..Len(run.ops) \ {j} :
           StatusOf(run.results[i]) =
             StatusOf(MilestoneBatchResults(
                        [ops |-> WithoutThrowAt(run.ops, j), idx |-> 1, results |-> <<>>,
                         outcomes |-> <<>>],
                        [run.outcomes EXCEPT ![j] = IF @ = "none" THEN "none" ELSE "ok"])[i])

\* C3: when operation j of a batch throws -- its collaborator call throws, its
\* update returns an error or rejects, it is null or lacks its id -- the batch
\* still has one result per operation, entry j has status error and the
\* stringified cause, the calls of the operations after j are made, and every
\* other entry has the status it has in the batch where j does not throw.
C3_FaultIsolation ==
  /\ opsLog # <<>> => FileFaultsIsolated(applyEnv.ops, applyEnv.env, opsLog[Len(opsLog)].ops)
  /\ \A k \in 1..Len(msDone) : MilestoneFaultsIsolated(msDone[k])

\* a batch of two file operations was applied, the call of the first threw and
\* the second was carried out
C3_Witness ==
  /\ opsLog # <<>>
  /\ Len(applyEnv.ops) = 2
  /\ applyEnv.env[1] /\ ~applyEnv.env[2]
  /\ StatusOf(opsLog[1].ops[1]) = "error"
  /\ StatusOf(opsLog[1].ops[2]) = "ok"
  /\ Len(fsCalls) = 2 /\ fsCalls[1].threw /\ ~fsCalls[2].threw

\* the payload the response carries under tag, as streamChat staged it
StagedPayload(tag) == ParsedOf(ExtractIfContent(assistantContent, tag))

\* the number of operations of a payload: the length of an array, 1 otherwise
PayloadSize(payload) == IF payload.t = "arr" THEN Len(payload.v) ELSE 1

\* operation i of a payload
PayloadOp(payload, i) == IF payload.t = "arr" THEN payload.v[i] ELSE payload

Statuses == {"ok", "error", "unknown-action"}

\* entry is a result of op: the members of op, and one status
IsEntryOf(entry, op) ==
  /\ entry.t = "obj"
  /\ "status" \in DOMAIN entry.v
  /\ entry.v["status"].t = "str"
  /\ entry.v["status"].v \in Statuses
  /\ \A key \in DOMAIN Spread(op) \ {"status", "error"} :
       key \in DOMAIN entry.v /\ entry.v[key] = Spread(op)[key]

ResultsMatch(results, payload) ==
  /\ Len(results) = PayloadSize(payload)
  /\ \A i \in 1..Len(results) : IsEntryOf(results[i], PayloadOp(payload, i))

\* C4: every finished applyFileOps and applyMilestoneOps has as many results as
\* the staged payload has operations (the length of an array, 1 for a payload
\* that is no array), result i being the members of operation i with one
\* status among ok, error and unknown-action.
C4_OneResultPerOperation ==
  /\ \A k \in 1..Len(opsLog) : ResultsMatch(opsLog[k].ops, StagedPayload("FILE_OPS"))
  /\ \A k \in 1..Len(msDone) : ResultsMatch(msDone[k].results, StagedPayload("MILESTONE_OPS"))

\* an array of two milestone operations was applied to its end: the first
\* failed, the second was carried out
C4_Witness ==
  /\ msDone # <<>>
  /\ StagedPayload("MILESTONE_OPS").t = "arr"
  /\ Len(msDone[1].results) = 2
  /\ StatusOf(msDone[1].results[1]) = "error"
  /\ StatusOf(msDone[1].results[2]) = "ok"

(***************************************************************************)
(* The intake negotiation.                                                 *)
(***************************************************************************)
YesWords == {"yes", "yeS", "yEs", "yES", "Yes", "YeS", "YEs", "YES"}
NoWords == {"no", "nO", "No", "NO"}

\* this step confirms the intake
Confirms == ~intakeConfirmed /\ intakeConfirmed'

\* this step is a handleSend that appended the user message text and one reply
Sent(text) ==
  /\ Len(messages') = Len(messages) + 2
  /\ messages'[Len(messages) + 1].role = "user"
  /\ messages'[Len(messages) + 1].content = text
  /\ messages'[Len(messages) + 2].role = "assistant"

\* C5: a step that sets intakeConfirmed is a handleSend of a message that is
\* yes in some case, taken while awaitingConfirmation is set and a record is
\* held; in particular not from the state where nothing was parsed.
C5_ConfirmationNeverSkipped ==
  [][Confirms =>
       /\ awaitingConfirmation
       /\ intake # Null
       /\ \E text \in YesWords : Sent(text)
    ]_vars

\* the intake was confirmed by the reply YES
C5_Witness ==
  /\ intakeConfirmed
  /\ \E k \in 1..(Len(messages) - 1) :
       /\ messages[k] = UserMsg(messages[k].id, "YES")
       /\ messages[k + 1].content = ConfirmedText
  /\ Len(messages) = 5

\* the original statement of C6: the message before the confirming yes is the
\* one that was parsed, its echo being the last message shown
C6_YesImmediatelyAfterParse ==
  [][Confirms =>
       /\ intake # Null
       /\ Len(messages) >= 2
       /\ messages[Len(messages) - 1].role = "user"
       /\ messages[Len(messages)].content = EchoText(intake)
       /\ \E text \in YesWords : Sent(text)
    ]_vars

\* C6: a step that sets intakeConfirmed is the handleSend of a yes, the record
\* held is the one most recently parsed and echoed, and since that echo no
\* reply no was sent and nothing was answered but with the helper text or the
\* refusal (messages that were not recognised, and refused code requests, may
\* lie between).
C6_YesWhileRecordHeld ==
  [][Confirms =>
       /\ intake # Null
       /\ \E text \in YesWords : Sent(text)
       /\ \E k \in 1..(Len(messages) - 1) :
            /\ messages[k].role = "user"
            /\ messages[k + 1].role = "assistant"
            /\ messages[k + 1].content = EchoText(intake)
            /\ \A j \in (k + 2)..Len(messages) :
                 /\ messages[j].role = "assistant" =>
                      messages[j].content \in {HelperText, RefusalText}
                 /\ messages[j].role = "user" => messages[j].content \notin NoWords
    ]_vars

\* the intake was confirmed by a yes sent after a reply that was not recognised
C6_Witness ==
  /\ intakeConfirmed
  /\ \E k \in 1..(Len(messages) - 2) :
       /\ messages[k].content = HelperText
       /\ messages[k + 1].role = "user"
       /\ messages[k + 2].content = ConfirmedText

Collecting == ~awaitingConfirmation /\ ~intakeConfirmed /\ intake = Null
ParsedAwaitingConfirm == awaitingConfirmation /\ ~intakeConfirmed /\ intake # Null
Confirmed == intakeConfirmed /\ ~awaitingConfirmation /\ intake # Null

\* C7: awaitingConfirmation and intakeConfirmed are never both set, and the
\* session is in exactly one of the three intake states.
C7_IntakeStates ==
  /\ ~(awaitingConfirmation /\ intakeConfirmed)
  /\ Cardinality({st \in {"COLLECTING", "PARSED_AWAITING_CONFIRM", "CONFIRMED"} :
                    CASE st = "COLLECTING" -> Collecting
                      [] st = "PARSED_AWAITING_CONFIRM" -> ParsedAwaitingConfirm
                      [] OTHER -> Confirmed}) = 1

\* the session is collecting again after a parsed record was rejected
C7_Witness ==
  /\ Collecting
  /\ Len(messages) >= 5
  /\ messages[Len(messages)].content = ReenterText

\* C8: a handleSend of a message that matches a code-request pattern appends
\* the user message and the refusal and nothing else, sends no request, starts
\* no stream, persists no intake, and leaves intake, awaitingConfirmation and
\* intakeConfirmed as they are; this in each of the three intake states.
C8_CodeRequestRefused ==
  [][(/\ Len(messages') = Len(messages) + 2
      /\ messages'[Len(messages) + 1].role = "user"
      /\ IsCodeRequest(messages'[Len(messages) + 1].content)) =>
       /\ messages' = messages \o <<UserMsg(now, messages'[Len(messages) + 1].content),
                                    Msg(now, "assistant", RefusalText, "warning")>>
       /\ requests' = requests
       /\ scPc' = scPc /\ isLoading' = isLoading
       /\ intake' = intake
       /\ awaitingConfirmation' = awaitingConfirmation
       /\ intakeConfirmed' = intakeConfirmed
       /\ \A k \in (Len(store) + 1)..Len(store') : store'[k].op # "saveIntake"
    ]_vars

\* a code request was refused while a parsed record awaited its confirmation
C8_Witness ==
  /\ ParsedAwaitingConfirm
  /\ Len(messages) = 5
  /\ messages[Len(messages)].content = RefusalText
  /\ messages[Len(messages) - 1].role = "user"
  /\ requests = <<>>

(***************************************************************************)
(* The Command Extractor on texts with one block, closed or not, and what  *)
(* follows it.                                                             *)
(***************************************************************************)
ValidBodies == {"[1]", "{\"a\":\"b\"}", "null"}
InvalidBodies == {"[1,", "{a:1}", ""}

\* a text with one block of in.tag, its closing fence written or not
ExtractText(in) ==
  in.prefix \o Fence \o in.tag \o "\n" \o in.body
  \o (IF in.closed THEN "\n" \o Fence ELSE "") \o in.suffix

PanelInit ==
  /\ SessInit /\ StageInit /\ CollabInit /\ StreamInit /\ ApplyInit
  /\ conversation = FALSE /\ hasFs = TRUE /\ hasSubmission = TRUE

ExtractInit ==
  /\ PanelInit
  /\ fnIn \in [prefix : {"", "Plan:\n"},
               tag : {"FILE_OPS", "MENTOR_REPORT", "MILESTONE_OPS"},
               body : ValidBodies \cup InvalidBodies,
               closed : BOOLEAN,
               suffix : {"", "\nDone.", "\n" \o Block("MENTOR_REPORT", MentorReportA)}]
  /\ fnOut = [done |-> FALSE]

\* extractFencedJson(text, tag)
Extract ==
  /\ ~fnOut.done
  /\ fnOut' = [done |-> TRUE, val |-> ExtractFencedJson(ExtractText(fnIn), fnIn.tag)]
  /\ UNCHANGED <<sessVars, stageVars, propVars, collabVars, streamVars, applyVars, fnIn>>

SpecExtract == ExtractInit /\ [][Extract]_vars

\* C9: the result is null for a block whose closing fence is not written, even
\* when other fenced blocks follow it, and for a block whose body is not JSON.
C9_UnterminatedOrInvalidIsAbsent ==
  fnOut.done => ((~fnIn.closed \/ fnIn.body \in InvalidBodies) => fnOut.val = Null)

(***************************************************************************)
(* The intake parser on texts with the four lines in every order and one   *)
(* more line at every place.                                               *)
(***************************************************************************)
\* the four required lines; field is the key the parser files the line under
RequiredLines ==
  <<[key |-> "Project idea", field |-> "project idea", value |-> "Todo app"],
    [key |-> "Tech stack", field |-> "tech stack", value |-> "React"],
    [key |-> "Skill level", field |-> "skill level", value |-> "beginner"],
    [key |-> "Timeline", field |-> "timeline", value |-> "by 12:00"]>>

\* lines a message may hold besides: prose, a blank line, a line of another
\* key, a line of an alias, and a line that repeats a required key
ExtraLines ==
  {[key |-> "", field |-> "", value |-> "Hello there"],
   [key |-> "", field |-> "", value |-> ""],
   [key |-> "Note", field |-> "note", value |-> "see below"],
   [key |-> "Project", field |-> "project", value |-> "other"],
   [key |-> "TIMELINE", field |-> "timeline", value |-> "9 weeks"]}

\* the lines of the message in: the required lines in the order in.order, the
\* extra line after the first in.at of them
IntakeLines(in) ==
  LET required == [k \in 1..Len(RequiredLines) |-> RequiredLines[in.order[k]]]
  IN SubSeq(required, 1, in.at) \o <<in.extra>> \o SubSeq(required, in.at + 1, Len(required))

\* the message in: its lines, the key of a line divided from its value by in.sep,
\* the lines ended by in.eol
IntakeText(in) ==
  JoinTexts([k \in 1..Len(IntakeLines(in)) |->
               IF IntakeLines(in)[k].key = "" THEN IntakeLines(in)[k].value
               ELSE IntakeLines(in)[k].key \o in.sep \o IntakeLines(in)[k].value],
            in.eol)

IntakeInit ==
  /\ PanelInit
  /\ fnIn \in [order : {f \in [1..Len(RequiredLines) -> 1..Len(RequiredLines)] :
                          \A a, b \in 1..Len(RequiredLines) : a # b => f[a] # f[b]},
               extra : ExtraLines, at : 0..Len(RequiredLines), eol : {"\n", "\r\n"},
               sep : {": ", ":"}]
  /\ fnOut = [done |-> FALSE]

\* parseIntakeFromText(text)
ParseIntake ==
  /\ ~fnOut.done
  /\ fnOut' = [done |-> TRUE, val |-> ParseIntakeFromText(IntakeText(fnIn))]
  /\ UNCHANGED <<sessVars, stageVars, propVars, collabVars, streamVars, applyVars, fnIn>>

SpecIntake == IntakeInit /\ [][ParseIntake]_vars

\* the value of the last of lines filed under field
LastValueOf(lines, field) ==
  lines[CHOOSE k \in 1..Len(lines) :
          /\ lines[k].field = field
          /\ \A j \in (k + 1)..Len(lines) : lines[j].field # field].value

\* the original statement of C10: the record holds the values of the four
\* required lines, whatever the extra line
C10_ExactlyTheFourValues ==
  fnOut.done =>
    fnOut.val = [t |-> "intake", projectIdea |-> RequiredLines[1].value,
                 techStack |-> RequiredLines[2].value,
                 skillLevel |-> RequiredLines[3].value,
                 timeline |-> RequiredLines[4].value]

\* C10: for a text with the four required lines in any order and an extra
\* line at any place, the result is a record that holds under each of the four
\* keys the value of the last line with that key: the values of the four
\* required lines unless the extra line repeats one of their keys after them.
C10_LastLineOfEachKey ==
  fnOut.done =>
    fnOut.val = [t |-> "intake",
                 projectIdea |-> LastValueOf(IntakeLines(fnIn), "project idea"),
                 techStack |-> LastValueOf(IntakeLines(fnIn), "tech stack"),
                 skillLevel |-> LastValueOf(IntakeLines(fnIn), "skill level"),
                 timeline |-> LastValueOf(IntakeLines(fnIn), "timeline")]

\* a message in another order, its lines ended by CR LF, with a second
\* timeline line before the required one, was parsed to the required values
C10_Witness ==
  /\ fnOut.done
  /\ fnIn.extra.field = "timeline"
  /\ fnIn.at = 0
  /\ fnIn.order[1] # 1
  /\ fnIn.eol = "\r\n"
  /\ fnOut.val # Null
  /\ fnOut.val.timeline = "by 12:00"

(***************************************************************************)
(* The transitions of the intake negotiation, one by one.                  *)
(***************************************************************************)
\* the text of the user message this step appended
SentText == messages'[Len(messages) + 1].content

\* this step is a handleSend that answered a user message locally
SentAny ==
  /\ Len(messages') = Len(messages) + 2
  /\ messages'[Len(messages) + 1].role = "user"
  /\ messages'[Len(messages) + 2].role = "assistant"

\* text holds the line "label: value"
HoldsLine(text, label, value) == IndexOf(text, label \o ": " \o value \o "\n", 0) # -1

\* C11: in COLLECTING, a handleSend of a message (no code request) from which
\* the four fields parse holds the parsed record, sets awaitingConfirmation,
\* leaves intakeConfirmed unset, appends the user message and one assistant
\* message of type question that holds the four values as parsed and asks for
\* yes or no, and sends no request.
C11_ParseEchoes ==
  [][(Collecting /\ SentAny /\ ~IsCodeRequest(SentText)
      /\ ParseIntakeFromText(SentText) # Null) =>
       /\ intake' = ParseIntakeFromText(SentText)
       /\ awaitingConfirmation' /\ ~intakeConfirmed'
       /\ Len(messages') = Len(messages) + 2
       /\ SubSeq(messages', 1, Len(messages)) = messages
       /\ messages'[Len(messages) + 2].type = "question"
       /\ HoldsLine(messages'[Len(messages) + 2].content, "Project idea", intake'.projectIdea)
       /\ HoldsLine(messages'[Len(messages) + 2].content, "Tech stack", intake'.techStack)
       /\ HoldsLine(messages'[Len(messages) + 2].content, "Skill level", intake'.skillLevel)
       /\ HoldsLine(messages'[Len(messages) + 2].content, "Timeline", intake'.timeline)
       /\ IndexOf(messages'[Len(messages) + 2].content, "**yes**", 0) # -1
       /\ IndexOf(messages'[Len(messages) + 2].content, "**no**", 0) # -1
       /\ requests' = requests /\ scPc' = scPc
    ]_vars

\* the first message of the session was parsed and echoed
C11_Witness ==
  /\ ParsedAwaitingConfirm
  /\ Len(messages) = 3
  /\ messages[2].content = IntakeA
  /\ HoldsLine(messages[3].content, "Timeline", "2 weeks")
  /\ requests = <<>>

\* C12: in PARSED_AWAITING_CONFIRM a handleSend of no, in any case, leaves the
\* session in COLLECTING: no record held, neither flag set; and in COLLECTING
\* a handleSend of yes confirms nothing and leaves the session in COLLECTING.
C12_NoDiscards ==
  [][/\ (ParsedAwaitingConfirm /\ SentAny /\ SentText \in NoWords) =>
          /\ intake' = Null /\ ~awaitingConfirmation' /\ ~intakeConfirmed'
          /\ messages'[Len(messages) + 2].content = ReenterText
          /\ requests' = requests
     /\ (Collecting /\ SentAny /\ SentText \in YesWords) =>
          /\ intake' = Null /\ ~awaitingConfirmation' /\ ~intakeConfirmed'
    ]_vars

\* a record was parsed and rejected, and the yes sent after that confirmed
\* nothing
C12_Witness ==
  /\ Collecting
  /\ Len(messages) = 7
  /\ messages[4].content \in NoWords
  /\ messages[5].content = ReenterText
  /\ messages[6].content \in YesWords
  /\ messages[7].content = HelperText

(***************************************************************************)
(* The negotiation alone: sessions of messages that are answered locally   *)
(* until the intake is confirmed, among them two different intakes.        *)
(***************************************************************************)
IntakeB == "Tech: Rust\r\nPROJECT IDEA: Chess engine\r\nNote: evenings only\r\nTimeframe: 6 weeks\r\nSkill: advanced"

NegotiationInputs == {IntakeA, IntakeB, "yes", "No", "maybe", "Write the code"}

NextNegotiate ==
  \E input \in NegotiationInputs :
    UserCount(messages) < MaxSends /\ ~intakeConfirmed /\ HandleSend(input)

SpecNegotiate == Init /\ [][NextNegotiate]_vars

\* C13: in PARSED_AWAITING_CONFIRM a handleSend of a message that is neither
\* yes nor no nor a code request leaves the held record and both flags as they
\* are and answers with a message that asks for yes or no, also when the
\* message holds the four lines itself.
C13_NeverReparsed ==
  [][(ParsedAwaitingConfirm /\ SentAny /\ SentText \notin YesWords \cup NoWords
      /\ ~IsCodeRequest(SentText)) =>
       /\ intake' = intake
       /\ awaitingConfirmation' /\ ~intakeConfirmed'
       /\ IndexOf(messages'[Len(messages) + 2].content, "yes", 0) # -1
       /\ IndexOf(messages'[Len(messages) + 2].content, "no", 0) # -1
    ]_vars


(* the calls of saveIntake that the store has received *)
SaveIntakeCalls(calls) == {i \in 1..Len(calls) : calls[i].op = "saveIntake"}

\* C14: the step that makes the session CONFIRMED appends saveIntake of the
\* held record to the calls of the store, and after every step the store has
\* received one saveIntake if the session is CONFIRMED and none otherwise.
C14_PersistedOnceWhenConfirmed ==
  [][/\ (~intakeConfirmed /\ intakeConfirmed') =>
          \E i \in (Len(store) + 1)..Len(store') : store'[i] = SaveIntake(intake)
     /\ Cardinality(SaveIntakeCalls(store')) = (IF intakeConfirmed' THEN 1 ELSE 0)
    ]_vars


(* a step of handleSend: the message of the user is the next of the chat *)
SentUser ==
  /\ Len(messages') > Len(messages)
  /\ messages'[Len(messages) + 1].role = "user"

(* the step is the start of streamChat with the chat and the message *)
HandedToStreamChat ==
  /\ messages' = Append(messages, messages'[Len(messages) + 1])
  /\ requests' = Append(requests, RequestBody(messages'))
  /\ scPc' = "fetching"
  /\ isLoading'

\* C15 as stated: once CONFIRMED the session stays CONFIRMED with the same
\* record, and every message of the user sent from then on is handed to
\* streamChat.
C15_EveryMessageStreams ==
  [][Confirmed =>
       /\ intakeConfirmed' /\ ~awaitingConfirmation' /\ intake' = intake
       /\ SentUser => HandedToStreamChat
    ]_vars

\* C15 amended: once CONFIRMED the session stays CONFIRMED with the same
\* record; every message of the user sent from then on that is not a code
\* request is handed to streamChat, whatever it holds (an intake, yes, no),
\* and a code request is refused without a request.
C15_ConfirmedIsTerminal ==
  [][Confirmed =>
       /\ intakeConfirmed' /\ ~awaitingConfirmation' /\ intake' = intake
       /\ (SentUser /\ ~IsCodeRequest(SentText)) => HandedToStreamChat
       /\ (SentUser /\ IsCodeRequest(SentText)) =>
            /\ messages'[Len(messages) + 2].content = RefusalText
            /\ requests' = requests
    ]_vars

C15_Witness ==
  /\ Confirmed
  /\ Len(messages) = 6
  /\ messages[6].role = "user" /\ messages[6].content \in NoWords
  /\ Len(requests) = 1
  /\ scPc = "fetching"


(***************************************************************************)
(* The read loop and the final flush, line by line.                        *)
(***************************************************************************)
(* the line at the front of buf when the read loop has put it back: a data *)
(* line, ended by its newline, whose payload throws; "" when there is none *)
HeldLine(buf) ==
  LET Held(line, d) ==
        IF IsSkippedLine(line) \/ Trim(SliceFrom(line, 6)) = DoneSentinel \/ d.ok
        THEN "" ELSE line
      At(newlineIndex) ==
        IF newlineIndex = -1 THEN ""
        ELSE Held(StripCR(Slice(buf, 0, newlineIndex)),
                  DeltaContent(Trim(SliceFrom(StripCR(Slice(buf, 0, newlineIndex)), 6))))
  IN At(IndexOf(buf, "\n", 0))

\* C16: when a data line whose payload does not parse was put back at the front
\* of the buffer and the next chunk is concatenated, the parse is retried on
\* the payload extended by that chunk: the line that was tried is not the line
\* tried again, so it is no longer the line at the front of the buffer.
C16_RetriedOnExtendedPayload ==
  [][(scPc = "reading" /\ scPc' = "reading" /\ HeldLine(textBuffer) # ""
      /\ textBuffer' # textBuffer) =>
       HeldLine(textBuffer') # HeldLine(textBuffer)
    ]_vars


(* what one line of the stream contributes: the delta content of a data    *)
(* line whose payload parses and holds one, nothing for every other line   *)
DeltaOfLine(raw) ==
  LET Of(d) == IF d.ok /\ Truthy(d.val) THEN StringOf(d.val) ELSE ""
      Data(jsonStr) == IF jsonStr = DoneSentinel THEN "" ELSE Of(DeltaContent(jsonStr))
      Line(line) == IF IsSkippedLine(line) THEN "" ELSE Data(Trim(SliceFrom(line, 6)))
  IN Line(StripCR(raw))

RECURSIVE ConcatDeltas(_)
(* the contributions of the lines raws, in their order *)
ConcatDeltas(raws) ==
  IF Len(raws) = 0 THEN "" ELSE DeltaOfLine(Head(raws)) \o ConcatDeltas(Tail(raws))

\* C17: when the stream has ended normally, assistantContent is the
\* concatenation, in the order of the stream, of the delta content of every
\* well-formed data line of the whole stream, each once, the last line without
\* a newline included; every other line contributes nothing.
C17_NoLossNoDuplication ==
  scPc = "idle" => assistantContent = ConcatDeltas(SplitNL(Decode(streamAll).text))

C17_Witness ==
  /\ scPc = "idle"
  /\ ~EndsWith(streamAll, "\n")
  /\ IndexOf(streamAll, ": ping", 0) # -1
  /\ cutInLine
  /\ assistantContent = "ab"


(***************************************************************************)
(* What streamChat does with the content once the stream is over.          *)
(***************************************************************************)
(* streamChat comes to its end through the catch: the transport failed     *)
(* before the reader reported done                                         *)
CutShort ==
  /\ scPc # "idle" /\ scPc' = "idle"
  /\ toasts' = Append(toasts, ConnectionErrorToast)

\* C18: the content of a response whose stream did not reach end-of-stream,
\* a response cut short by a transport failure included, is not given to
\* extractFencedJson: the step that ends such a streamChat stages no
\* operations and persists no mentor report.
C18_OnlyFinalizedOutput ==
  [][CutShort =>
       /\ pendingFileOps' = pendingFileOps /\ showFileOpsDialog' = showFileOpsDialog
       /\ pendingMilestoneOps' = pendingMilestoneOps
       /\ showMilestoneOpsDialog' = showMilestoneOpsDialog
       /\ dbCalls' = dbCalls
    ]_vars


(* the inserts into mentor_reports among the calls made on supabase *)
ReportRows(calls) ==
  {i \in 1..Len(calls) : calls[i].table = "mentor_reports" /\ calls[i].op = "insert"}

(* the row of the report MentorReportA *)
ReportRowA ==
  [table |-> "mentor_reports", op |-> "insert", key |-> Undefined,
   payload |-> [t |-> "extract", raw |-> MentorReportA, parsed |-> JSONParse(MentorReportA).val]]

\* C19: the step that ends a response whose content holds a MENTOR_REPORT
\* block that parses inserts the report into mentor_reports when a submission
\* identifier is available, whatever is staged or shown at that moment; no
\* other step (Apply, Cancel, a dismissal, an awaited update) adds or removes
\* a report row, and without a submission identifier there is no report row.
C19_ReportPersistedAtOnce ==
  [][/\ (scPc = "reading" /\ scPc' = "idle" /\ hasSubmission
         /\ IndexOf(assistantContent', Block("MENTOR_REPORT", MentorReportA), 0) # -1) =>
          dbCalls' = Append(dbCalls, ReportRowA)
     /\ ~(scPc = "reading" /\ scPc' = "idle") =>
          /\ Cardinality(ReportRows(dbCalls')) = Cardinality(ReportRows(dbCalls))
          /\ \A i \in ReportRows(dbCalls) : dbCalls'[i] = dbCalls[i]
     /\ ~hasSubmission => ReportRows(dbCalls') = {}
    ]_vars

C19_Witness ==
  /\ hasSubmission
  /\ \E i \in 1..Len(dbCalls) : dbCalls[i] = ReportRowA
  /\ pendingFileOps = Null /\ ~showFileOpsDialog /\ fsCalls = <<>> /\ opsLog = <<>>
  /\ showMilestoneOpsDialog /\ Truthy(pendingMilestoneOps) /\ msRuns = <<>>


(***************************************************************************)
(* The Cancel buttons of the two dialogs.                                  *)
(***************************************************************************)
(* the Cancel button of the milestone dialog is pressed on a staged        *)
(* sequence: the dialog closes and the sequence is dropped with no toast   *)
CancelsMilestoneOps ==
  /\ showMilestoneOpsDialog /\ Truthy(pendingMilestoneOps)
  /\ ~showMilestoneOpsDialog' /\ pendingMilestoneOps' = Null
  /\ toasts' = toasts

(* the same of the file dialog: no entry of opsLog is written *)
CancelsFileOps ==
  /\ showFileOpsDialog /\ Truthy(pendingFileOps)
  /\ ~showFileOpsDialog' /\ pendingFileOps' = Null
  /\ opsLog' = opsLog

(* the one staged milestone sequence of the session was cancelled, and no  *)
(* applyMilestoneOps call has come to its end                              *)
MilestoneOpsCancelled ==
  /\ pendingMilestoneOps = Null /\ ~showMilestoneOpsDialog
  /\ msDone = <<>>

\* C20: when Cancel is pressed on a staged sequence, no operation of the
\* sequence has been applied (no call for it was made on the file system or
\* on supabase, also when an applyMilestoneOps call of the sequence is
\* suspended at an await), and none is applied afterwards.
C20_CancelAppliesNothing ==
  [][/\ CancelsFileOps => fsCalls' = <<>>
     /\ CancelsMilestoneOps => UpdateCalls(dbCalls') = <<>>
     /\ MilestoneOpsCancelled => UpdateCalls(dbCalls') = UpdateCalls(dbCalls)
    ]_vars


(***************************************************************************)
(* The staged payloads and their dialogs.                                  *)
(***************************************************************************)
\* C21: when a confirmation dialog closes (Apply has finished, Cancel, or the
\* user dismissed it) the staged payload of its domain is null from then on,
\* so that it cannot be applied afterwards: a staged payload is non-null only
\* while its dialog is shown.
C21_StagedOnlyWhileShown ==
  [][/\ (showFileOpsDialog /\ ~showFileOpsDialog') => pendingFileOps' = Null
     /\ (showMilestoneOpsDialog /\ ~showMilestoneOpsDialog') => pendingMilestoneOps' = Null
     /\ pendingFileOps' # Null => showFileOpsDialog'
     /\ pendingMilestoneOps' # Null => showMilestoneOpsDialog'
    ]_vars


(* an applyMilestoneOps call starts in this step: the calls that are        *)
(* suspended or have come to their end are one more than before            *)
ApplyStarts == Len(msRuns') + Len(msDone') > Len(msRuns) + Len(msDone)

\* C22: no applyMilestoneOps call starts while another one is suspended at the
\* await of an update, so that at most one call is mid-apply at any time.
C22_NoReentrancy ==
  [][/\ ApplyStarts => msRuns = <<>>
     /\ Len(msRuns') <= 1
    ]_vars


(***************************************************************************)
(* The order of the messages in the chat and in the conversation store.    *)
(***************************************************************************)
(* the content of the last message of the user in msgs *)
LastUserText(msgs) ==
  LET users == {k \in 1..Len(msgs) : msgs[k].role = "user"}
  IN IF users = {} THEN "" ELSE msgs[CHOOSE k \in users : \A j \in users : j <= k].content

\* C23: a message sent after the confirmation of the intake is appended to the
\* chat and to the conversation store in the step that issues the request,
\* ahead of it, and before any delta of the response; the chat only grows at
\* its end, the message of the response is appended directly after the message
\* of the user it answers, in the chat and in the store.
C23_UserMessageFirst ==
  [][/\ (Confirmed /\ SentUser /\ HandedToStreamChat) =>
          /\ Len(store') > Len(store)
          /\ store'[Len(store')] = AddPlain("user", SentText, NoType)
          /\ requests'[Len(requests')][Len(messages')].content = SentText
          /\ assistantContent' = ""
     /\ /\ Len(messages') >= Len(messages)
        /\ \A k \in 1..(Len(messages) - 1) : messages'[k] = messages[k]
     /\ (scPc = "reading" /\ Len(messages') > Len(messages)) =>
          /\ messages[Len(messages)].role = "user"
          /\ messages' = Append(messages, Msg(assistantId, "assistant", assistantContent',
                                              "explanation"))
     /\ (scPc = "reading" /\ scPc' = "idle" /\ Len(store') > Len(store)) =>
          /\ Len(store') = Len(store) + 1
          /\ store'[Len(store')].role = "assistant"
          /\ store # <<>>
          /\ store[Len(store)] = AddPlain("user", LastUserText(messages), NoType)
    ]_vars


(***************************************************************************)
(* Exchanges after the confirmation: messages sent one after the other,    *)
(* each answered by a response, an error status or a transport failure.    *)
(***************************************************************************)
\* messages of the user in a session of exchanges
MaxExchanges == 5

ExchangeInputs == {"no", "Please GIVE me the code"}

ExchangeInit == ReadingOf(Responses) /\ hasFs = TRUE

NextExchange ==
  \/ \E input \in ExchangeInputs : UserCount(messages) < MaxExchanges /\ HandleSend(input)
  \/ \E status \in HttpErrors : FetchNotOk(status)
  \/ FetchThrows
  \/ \E body \in Responses : FetchOk(body)
  \/ \E n \in SessionChunks(streamRest) : StreamRead(n)
  \/ StreamEnd
  \/ StreamReadThrows

SpecExchange == ExchangeInit /\ [][NextExchange]_vars

ShownAdded ==
  [k \in 1..(Len(messages') - Len(messages)) |->
     [role |-> messages'[Len(messages) + k].role,
      content |-> messages'[Len(messages) + k].content]]

(* role and content of the addMessage calls the step made on the store *)
StoredAdded ==
  LET IsAdd(c) == c.op = "addMessage"
      Of(adds) == [k \in 1..Len(adds) |-> [role |-> adds[k].role, content |-> adds[k].content]]
  IN Of(SelectSeq(Added(store, store'), IsAdd))

(* the response of the streamChat that ends is shown as the last message *)
ResponseShown ==
  /\ messages'[Len(messages')].role = "assistant"
  /\ messages'[Len(messages')].id = assistantId

\* C25: handleSend hands to the conversation store the messages it appends
\* to the chat, in their order; the step that ends a streamChat hands to the
\* store the response as the chat shows it, once, and nothing when the chat
\* shows no response; no other step calls addMessage.
C25_EveryMessagePersisted ==
  [][/\ SentUser => StoredAdded = ShownAdded
     /\ (scPc = "reading" /\ scPc' = "idle") =>
          StoredAdded = IF ResponseShown
                        THEN <<[role |-> "assistant",
                                content |-> messages'[Len(messages')].content]>>
                        ELSE <<>>
     /\ (~SentUser /\ ~(scPc = "reading" /\ scPc' = "idle")) => StoredAdded = <<>>
    ]_vars


(* the buffer of the read pass of this step: textBuffer and the text the   *)
(* decoder makes of the bytes the step took from the stream                *)
PassBuffer ==
  textBuffer
  \o Decode(decoderRest \o Slice(streamRest, 0, Len(streamRest) - Len(streamRest'))).text

IsDoneLine(raw) ==
  ~IsSkippedLine(StripCR(raw)) /\ Trim(SliceFrom(StripCR(raw), 6)) = DoneSentinel

(* a data line of the pass whose payload throws *)
IsBadLine(raw) ==
  /\ ~IsSkippedLine(StripCR(raw)) /\ ~IsDoneLine(raw)
  /\ ~DeltaContent(Trim(SliceFrom(StripCR(raw), 6))).ok

(* the first [DONE] line among the pieces of the buffer of a pass that is  *)
(* ended by a newline, 0 when there is none                                *)
FirstDone(pieces) ==
  LET dones == {k \in 1..(Len(pieces) - 1) : IsDoneLine(pieces[k])}
  IN IF dones = {} THEN 0 ELSE CHOOSE k \in dones : \A j \in dones : k <= j

(* the streams that hold a [DONE] line: first, last, or between two data   *)
(* lines                                                                   *)
DoneTexts ==
  {t \in StreamTexts : IndexOf(t, DoneSentinel, 0) # -1}
  \cup {DeltaLine("a") \o "\n" \o DataMarker \o DoneSentinel \o "\r\n" \o DeltaLine("b") \o "\n"}

DoneInit == ReadingOf(DoneTexts) /\ hasFs = TRUE

\* the reads of these streams: a chunk reaches up to the end of a line, up to
\* a colon, a bracket or a brace within a line, or to the end of the stream
NextDone ==
  \/ \E n \in {k \in 1..Len(streamRest) :
                 k = Len(streamRest)
                 \/ CharAt(streamRest, k - 1) \in {"\n", ":", "[", "]", "{", "}"}} :
       StreamRead(n)
  \/ StreamEnd

SpecDone == DoneInit /\ [][NextDone]_vars

\* C26: a read pass that meets a [DONE] line (no line before it stopped the
\* pass) appends the deltas of the lines before it, stops there and leaves the
\* lines behind it in the buffer as they are; the [DONE] line adds nothing,
\* and streamChat goes on reading.
C26_DoneEndsThePass ==
  [][LET Met(pieces, k) ==
           (k # 0 /\ \A j \in 1..(k - 1) : ~IsBadLine(pieces[j])) =>
             /\ assistantContent' = assistantContent \o ConcatDeltas(SubSeq(pieces, 1, k - 1))
             /\ textBuffer' = JoinTexts(SubSeq(pieces, k + 1, Len(pieces)), "\n")
             /\ scPc' = "reading"
         Pass(pieces) == Met(pieces, FirstDone(pieces))
         With(buf) == IndexOf(buf, DoneSentinel, 0) # -1 => Pass(SplitNL(buf))
     IN (scPc = "reading" /\ streamRest' # streamRest) => With(PassBuffer)
    ]_vars

C26_Witness ==
  /\ scPc = "reading"
  /\ StartsWith(streamAll, DataMarker \o DoneSentinel)
  /\ streamRest = ""
  /\ assistantContent = ""
  /\ HeldLine(textBuffer) = ""
  /\ DeltaOfLine(SplitNL(textBuffer)[1]) # ""


(***************************************************************************)
(* The Command Extractor on texts with up to three blocks: the block of    *)
(* the tag asked for, and a block before it and one after it, each of any  *)
(* tag, with a body that is JSON or not, its closing fence written or not. *)
(***************************************************************************)
Tags == {"FILE_OPS", "MENTOR_REPORT", "MILESTONE_OPS"}

NoBlock == [tag |-> "", valid |-> TRUE, closed |-> TRUE]

\* the blocks a text may hold before or after the one asked for
Neighbours == {NoBlock} \cup [tag : Tags, valid : BOOLEAN, closed : BOOLEAN]

NeighbourText(n) ==
  IF n.tag = "" THEN ""
  ELSE Fence \o n.tag \o "\n" \o (IF n.valid THEN "[2]" ELSE "[2,")
       \o (IF n.closed THEN "\n" \o Fence ELSE "")

\* the input of extractFencedJson: the block of tag between the two others
BlocksInput(before, tag, valid, closed, after) ==
  [prefix |-> "Plan:\n" \o NeighbourText(before) \o "\n",
   tag |-> tag,
   body |-> IF valid THEN "[1]" ELSE "[1,",
   closed |-> closed,
   suffix |-> "\n" \o NeighbourText(after) \o "\nDone.",
   valid |-> valid, before |-> before, after |-> after]

BlocksInit ==
  /\ PanelInit
  /\ fnIn \in {BlocksInput(before, tag, valid, closed, after) :
                 before \in Neighbours, tag \in Tags, valid \in BOOLEAN,
                 closed \in BOOLEAN, after \in Neighbours}
  /\ fnOut = [done |-> FALSE]

SpecBlocks == BlocksInit /\ [][Extract]_vars

(* the block n written well: its body JSON, its closing fence written *)
WellFormed(n) == [n EXCEPT !.valid = TRUE, !.closed = TRUE]

(* the input in with the blocks of the other tags written well *)
OthersWellFormed(in) ==
  BlocksInput(IF in.before.tag = in.tag THEN in.before ELSE WellFormed(in.before),
              in.tag, in.valid, in.closed,
              IF in.after.tag = in.tag THEN in.after ELSE WellFormed(in.after))

(* the three tags have one block each in the text of in, all written well *)
AllThreeWellFormed(in) ==
  /\ {in.before.tag, in.tag, in.after.tag} = Tags
  /\ in.valid /\ in.closed
  /\ in.before = WellFormed(in.before) /\ in.after = WellFormed(in.after)

\* C27: the result for a tag is the same whether the blocks of the other tags
\* in the text are well-formed or malformed (a body that is not JSON, a closing
\* fence not written), and in a text with a well-formed block of each tag all
\* three results are present.
C27_TagsIndependent ==
  fnOut.done =>
    /\ fnOut.val = ExtractFencedJson(ExtractText(OthersWellFormed(fnIn)), fnIn.tag)
    /\ AllThreeWellFormed(fnIn) =>
         /\ fnOut.val # Null /\ fnOut.val.raw = "[1]"
         /\ \A tag \in Tags \ {fnIn.tag} :
              /\ ExtractFencedJson(ExtractText(fnIn), tag) # Null
              /\ ExtractFencedJson(ExtractText(fnIn), tag).raw = "[2]"

C27_Witness ==
  /\ fnOut.done
  /\ fnIn.tag = "MENTOR_REPORT" /\ fnIn.valid /\ fnIn.closed
  /\ fnIn.before = [tag |-> "FILE_OPS", valid |-> FALSE, closed |-> TRUE]
  /\ fnIn.after = [tag |-> "MILESTONE_OPS", valid |-> TRUE, closed |-> FALSE]
  /\ fnOut.val # Null /\ fnOut.val.raw = "[1]"


(* the first block of the tag asked for in the text of in *)
FirstBlockOf(in) ==
  IF in.before.tag = in.tag THEN [valid |-> in.before.valid, body |-> "[2]"]
  ELSE [valid |-> in.valid, body |-> "[1]"]

\* C28: when the text holds several blocks of the tag, the result is that of
\* the first block alone: its body parsed when the body is JSON, null when it
\* is not; a later block of the tag is never the result.
C28_FirstBlockDecides ==
  (fnOut.done /\ (fnIn.before.tag = fnIn.tag \/ fnIn.after.tag = fnIn.tag)) =>
    IF FirstBlockOf(fnIn).valid
    THEN /\ fnOut.val # Null
         /\ fnOut.val.raw = FirstBlockOf(fnIn).body
         /\ fnOut.val.parsed = JSONParse(FirstBlockOf(fnIn).body).val
    ELSE fnOut.val = Null

C28_Witness ==
  /\ fnOut.done
  /\ fnIn.tag = "FILE_OPS" /\ fnIn.valid /\ fnIn.closed
  /\ fnIn.before = [tag |-> "FILE_OPS", valid |-> FALSE, closed |-> TRUE]
  /\ fnIn.after = [tag |-> "FILE_OPS", valid |-> TRUE, closed |-> TRUE]
  /\ fnOut.val = Null


(***************************************************************************)
(* The aggregate report and the entries of a milestone batch.              *)
(***************************************************************************)
(* an applyMilestoneOps call comes to its end in this step *)
CallFinishes == Len(msDone') = Len(msDone) + 1

(* the report of s succeeded and f failed operations *)
AggregateReport(s, f) ==
  IF f = 0 THEN Toast("Milestone ops applied", NatToString(s) \o " changes applied")
  ELSE Toast("Milestone ops completed with warnings",
             NatToString(s) \o " succeeded, " \o NatToString(f) \o " failed")

(* the operations of a finished call whose entry has a status among st *)
WithStatus(run, st) == {i \in 1..Len(run.results) : StatusOf(run.results[i]) \in st}

\* C29: the step in which an applyMilestoneOps call has processed the last of
\* its N operations shows one report, with succeeded the number of ok entries,
\* failed the number of error and unknown-action entries, and succeeded +
\* failed = N; a step in which no call comes to its end shows no report.
C29_OneAggregateReport ==
  [][LET Reported(run) ==
           /\ Len(run.results) = Len(run.ops)
           /\ Cardinality(WithStatus(run, {"ok"}))
              + Cardinality(WithStatus(run, {"error", "unknown-action"})) = Len(run.ops)
           /\ toasts' = Append(toasts,
                               AggregateReport(Cardinality(WithStatus(run, {"ok"})),
                                               Cardinality(WithStatus(run, {"error",
                                                                            "unknown-action"}))))
     IN IF CallFinishes THEN Reported(msDone'[Len(msDone')])
        ELSE toasts' = toasts
    ]_vars

C29_Witness ==
  /\ Len(msDone) = 1
  /\ Len(msDone[1].ops) = 2
  /\ StatusOf(msDone[1].results[1]) = "unknown-action"
  /\ StatusOf(msDone[1].results[2]) = "ok"
  /\ toasts = <<AggregateReport(1, 1)>>


(* op is an update that does not name the row to update *)
LacksId(op) ==
  /\ op.t = "obj"
  /\ "action" \in DOMAIN op.v
  /\ \/ op.v["action"] = JStr("update_milestone") /\ "milestone_id" \notin DOMAIN op.v
     \/ op.v["action"] = JStr("update_task") /\ "task_id" \notin DOMAIN op.v

(* the message of the entry of such an operation *)
LacksIdCause(op) ==
  IF op.v["action"] = JStr("update_milestone") THEN "Error: milestone_id is required"
  ELSE "Error: task_id is required"

(* the operations of a call that have sent an update *)
SentUpdate(run) == {i \in 1..Len(run.outcomes) : run.outcomes[i] # "none"}

RECURSIVE UpdatesSent(_)
(* the updates the calls of runs have sent: one of each operation answered, *)
(* and the one a suspended call is waiting for                              *)
UpdatesSent(runs) ==
  IF runs = <<>> THEN 0
  ELSE Cardinality(SentUpdate(Head(runs)))
       + (IF Len(Head(runs).outcomes) < Len(Head(runs).ops)
             /\ Head(runs).idx <= Len(Head(runs).ops) THEN 1 ELSE 0)
       + UpdatesSent(Tail(runs))

\* C30: in a finished applyMilestoneOps call an update_milestone without
\* milestone_id, or an update_task without task_id, has an entry of status
\* error that says which id is required; no update was sent for it -- every
\* update the collaborator received names a row and belongs to an operation
\* that has its id -- and every operation after it has its entry, and its
\* update if it has one to send.
C30_MissingIdIsAnError ==
  /\ Len(UpdateCalls(dbCalls)) = UpdatesSent(msDone) + UpdatesSent(msRuns)
  /\ \A c \in 1..Len(dbCalls) : IsUpdateCall(dbCalls[c]) => Truthy(dbCalls[c].key)
  /\ \A k \in 1..Len(msDone) :
       LET Checked(run) ==
             \A j \in 1..Len(run.ops) :
               LacksId(run.ops[j]) =>
                 /\ Len(run.results) = Len(run.ops)
                 /\ IsErrorEntry(run.results[j], LacksIdCause(run.ops[j]))
                 /\ j \notin SentUpdate(run)
                 /\ \A i \in (j + 1)..Len(run.ops) :
                      /\ IsEntryOf(run.results[i], run.ops[i])
                      /\ (run.ops[i].t = "obj" /\ ~LacksId(run.ops[i])
                          /\ Member(run.ops[i], "action")
                             \in {JStr("update_milestone"), JStr("update_task")})
                         => /\ i \in SentUpdate(run)
                            /\ \E c \in 1..Len(dbCalls) :
                                 /\ IsUpdateCall(dbCalls[c])
                                 /\ dbCalls[c].key
                                    \in {Member(run.ops[i], "milestone_id"),
                                         Member(run.ops[i], "task_id")}
       IN Checked(msDone[k])

C30_Witness ==
  /\ Len(msDone) = 1 /\ msRuns = <<>>
  /\ Len(msDone[1].ops) = 2
  /\ LacksId(msDone[1].ops[1])
  /\ StatusOf(msDone[1].results[1]) = "error"
  /\ msDone[1].outcomes = <<"none", "ok">>
  /\ StatusOf(msDone[1].results[2]) = "ok"
  /\ Len(UpdateCalls(dbCalls)) = 1


(***************************************************************************)
(* Actions outside the set of their block.                                 *)
(***************************************************************************)
FileActionNames == {"create", "update", "delete", "rename", "export"}
MilestoneActionNames == {"update_milestone", "update_task"}

(* op is an operation whose action is none of names *)
ActionOutside(op, names) ==
  /\ op.t \notin {"null", "undefined"}
  /\ \A a \in names : Member(op, "action") # JStr(a)

(* the most collaborator calls the operations of a file batch can make *)
MostFileCalls(ops) ==
  Cardinality({i \in 1..Len(ops) :
                 ops[i].t = "obj" /\ ~ActionOutside(ops[i], FileActionNames)})
  + Cardinality({i \in 1..Len(ops) :
                   ops[i].t = "obj" /\ Member(ops[i], "action") = JStr("export")})

\* C31: in an applied batch an operation whose action is outside the set of
\* its block -- a milestone action in FILE_OPS and a file action in
\* MILESTONE_OPS among them -- has an entry of status unknown-action and has
\* made no collaborator call, and the operations after it have their entries
\* and their calls.
C31_UnknownActionIsSkipped ==
  /\ opsLog # <<>> =>
       LET Checked(ops, env, res) ==
             /\ Len(fsCalls) <= MostFileCalls(ops)
             /\ \A j \in 1..Len(ops) :
                  ActionOutside(ops[j], FileActionNames) =>
                    /\ Len(res) = Len(ops)
                    /\ StatusOf(res[j]) = "unknown-action"
                    /\ ~env[j]
                    /\ \A i \in (j + 1)..Len(ops) :
                         /\ IsEntryOf(res[i], ops[i])
                         /\ (ops[i].t = "obj" /\ ~ActionOutside(ops[i], FileActionNames))
                            => /\ StatusOf(res[i]) = (IF env[i] THEN "error" ELSE "ok")
                               /\ hasFs => fsCalls # <<>>
       IN Checked(applyEnv.ops, applyEnv.env, opsLog[Len(opsLog)].ops)
  /\ \A k \in 1..Len(msDone) :
       LET Checked(run) ==
             \A j \in 1..Len(run.ops) :
               ActionOutside(run.ops[j], MilestoneActionNames) =>
                 /\ Len(run.results) = Len(run.ops)
                 /\ StatusOf(run.results[j]) = "unknown-action"
                 /\ j \notin SentUpdate(run)
                 /\ \A i \in (j + 1)..Len(run.ops) :
                      /\ IsEntryOf(run.results[i], run.ops[i])
                      /\ (run.ops[i].t = "obj" /\ ~LacksId(run.ops[i])
                          /\ ~ActionOutside(run.ops[i], MilestoneActionNames))
                         => i \in SentUpdate(run)
       IN Checked(msDone[k])
  /\ Len(UpdateCalls(dbCalls)) = UpdatesSent(msDone) + UpdatesSent(msRuns)

C31_Witness ==
  /\ opsLog # <<>>
  /\ hasFs
  /\ Len(applyEnv.ops) = 2
  /\ Member(applyEnv.ops[1], "action") = JStr("update_task")
  /\ Member(applyEnv.ops[2], "action") = JStr("create")
  /\ StatusOf(opsLog[1].ops[1]) = "unknown-action"
  /\ StatusOf(opsLog[1].ops[2]) = "ok"
  /\ Len(fsCalls) = 1 /\ fsCalls[1].fn = "createFile"


(***************************************************************************)
(* What a result of status ok stands for.                                  *)
(***************************************************************************)
CollaboratorFunction(name) ==
  CASE name = "create" -> "createFile"
    [] name = "update" -> "updateFile"
    [] name = "delete" -> "deleteFile"
    [] name = "rename" -> "renameFile"

(* call c is the call operation op asks for: its function, its path, and the *)
(* content or the new name the operation gives                               *)
CarriesOut(c, op, name) ==
  /\ c.fn = CollaboratorFunction(name)
  /\ ~c.threw
  /\ c.args[1] = Member(op, "path")
  /\ (name \in {"create", "update"} /\ Truthy(Member(op, "content")))
       => c.args[2] = Member(op, "content")
  /\ (name = "rename" /\ Truthy(Member(op, "newPath"))) => c.args[2] = Member(op, "newPath")

(* entry j of the applied batch is an ok of a create, update, delete or rename *)
ReportedOk(j, name) ==
  /\ applyEnv.ops[j].t = "obj"
  /\ Member(applyEnv.ops[j], "action") = JStr(name)
  /\ StatusOf(opsLog[Len(opsLog)].ops[j]) = "ok"

\* C32: every create, update, delete and rename of an applied batch that is
\* reported ok was carried out: the file system received the matching call
\* with the path and the payload of the operation.
C32_OkMeansCarriedOut ==
  opsLog # <<>> =>
    \A j \in 1..Len(applyEnv.ops), name \in {"create", "update", "delete", "rename"} :
      ReportedOk(j, name) =>
        \E c \in 1..Len(fsCalls) : CarriesOut(fsCalls[c], applyEnv.ops[j], name)


(***************************************************************************)
(* The fields an update writes.                                            *)
(***************************************************************************)
(* the table and the fields of an update action, and the member that names *)
(* the row                                                                 *)
TableOf(op) == IF Member(op, "action") = JStr("update_milestone") THEN "milestones" ELSE "tasks"
FieldsOf(op) ==
  IF Member(op, "action") = JStr("update_milestone")
  THEN {"status", "title", "description", "due_date"}
  ELSE {"status", "progress", "title", "description"}
RowOf(op) ==
  IF Member(op, "action") = JStr("update_milestone") THEN Member(op, "milestone_id")
  ELSE Member(op, "task_id")

(* the fields of its table that op provides *)
Provided(op) == FieldsOf(op) \cap DOMAIN op.v

(* call c is the update of op and writes nothing op does not provide *)
WritesOnlyProvided(c, op) ==
  /\ c.table = TableOf(op) /\ c.op = "update"
  /\ c.key = RowOf(op)
  /\ DOMAIN c.payload.v \subseteq Provided(op)
  /\ \A f \in DOMAIN c.payload.v : c.payload.v[f] = op.v[f]

(* call c is the update of op and writes the fields op provides, and no other *)
WritesProvided(c, op) ==
  /\ WritesOnlyProvided(c, op)
  /\ DOMAIN c.payload.v = Provided(op)

\* C33: the update an update_milestone or update_task has sent is keyed by the
\* id of the operation and writes the fields of {status, title, description,
\* due_date}, or of {status, progress, title, description}, that the operation
\* provides: every one of them, with the value given, and no other field.
C33_OnlyProvidedFields ==
  \A k \in 1..Len(msDone) :
    LET Checked(run) ==
          \A i \in SentUpdate(run) :
            \E c \in 1..Len(dbCalls) : WritesProvided(dbCalls[c], run.ops[i])
    IN Checked(msDone[k])


(***************************************************************************)
(* The Collector on messages that hold a part of an intake.                *)
(***************************************************************************)
MaxCollectSends == 4

(* an intake without its timeline, and one whose timeline has no value *)
IntakeWithoutTimeline == "Project idea: Todo app\nTech stack: React\nSkill level: beginner"
IntakeEmptyTimeline == IntakeWithoutTimeline \o "\nTimeline:  "

CollectInputs == {IntakeA, IntakeWithoutTimeline, IntakeEmptyTimeline, "yes", "hello"}

NextCollect ==
  \/ \E input \in CollectInputs : UserCount(messages) < MaxCollectSends /\ HandleSend(input)
  \/ FetchThrows
  \/ ConversationStarts

SpecCollect == Init /\ [][NextCollect]_vars

\* C34: in COLLECTING a handleSend of a message that is no code request and
\* from which the four fields do not parse leaves the session in COLLECTING
\* with no record held, appends the user message and the required-format
\* prompt, and sends no request; and no step sends a request while the intake
\* is not confirmed.
C34_RepromptInCollecting ==
  [][/\ (Collecting /\ SentAny /\ ~IsCodeRequest(SentText)
         /\ ParseIntakeFromText(SentText) = Null) =>
          /\ Collecting'
          /\ messages' = messages \o <<UserMsg(now, SentText),
                                       Msg(now + 1, "assistant", HelperText, "question")>>
          /\ requests' = requests
          /\ ~isLoading'
     /\ requests' # requests => intakeConfirmed
    ]_vars

C34_Witness ==
  /\ Collecting
  /\ Len(messages) = 5
  /\ messages[2].content = IntakeWithoutTimeline
  /\ messages[3].content = HelperText
  /\ messages[4].content = Trim(IntakeEmptyTimeline)
  /\ messages[5].content = HelperText
  /\ requests = <<>>


(***************************************************************************)
(* The response as the message list shows it.                              *)
(***************************************************************************)
(* this step has appended delta content *)
ContentAppended == assistantContent' # assistantContent /\ assistantContent' # ""

\* C35: after every step that appends delta content -- a pass of the read
\* loop or the final pass over the trailing buffer -- the last message of the
\* list is the assistant message of this response and its content is
\* assistantContent.
C35_EveryAppendShown ==
  [][ContentAppended =>
       messages'[Len(messages')] = Msg(assistantId', "assistant", assistantContent', "explanation")
    ]_vars


(***************************************************************************)
(* The message list from step to step.                                     *)
(***************************************************************************)
(* this step has appended messages at the end of the list *)
AppendsMessages ==
  /\ Len(messages') > Len(messages)
  /\ SubSeq(messages', 1, Len(messages)) = messages

(* this step has extended the content of the last message, the response that *)
(* is being streamed, and has left every other message as it was             *)
ExtendsResponse ==
  /\ scPc = "reading"
  /\ Len(messages') = Len(messages)
  /\ messages # <<>>
  /\ messages[Len(messages)].role = "assistant"
  /\ messages[Len(messages)].id = assistantId
  /\ \E delta \in 1..(Len(messages'[Len(messages)].content)
                      - Len(messages[Len(messages)].content)) :
       messages' = [messages EXCEPT ![Len(messages)].content =
                      @ \o SubSeq(messages'[Len(messages)].content, Len(@) + 1,
                                  Len(@) + delta)]

\* C36: every step that changes the message list appends messages at its end,
\* or extends the content of its last message while that message is the
\* assistant message of the response being streamed; no other message is
\* edited, removed or moved.
C36_AppendOnly ==
  [][messages' # messages => (AppendsMessages \/ ExtendsResponse)]_vars

C36_Witness ==
  /\ scPc = "reading"
  /\ Len(messages) = 7
  /\ messages[2] = UserMsg(messages[2].id, IntakeA)
  /\ messages[7] = Msg(assistantId, "assistant", "Hi there", "explanation")


(***************************************************************************)
(* The intake record held and persisted.                                   *)
(***************************************************************************)
(* rec has its four fields, none of them empty *)
IsComplete(rec) ==
  /\ rec # Null
  /\ rec.projectIdea # "" /\ rec.techStack # "" /\ rec.skillLevel # "" /\ rec.timeline # ""

\* C37: a record held in intake, while the confirmation is awaited and after
\* it, and every record passed to saveIntake has the four fields projectIdea,
\* techStack, skillLevel and timeline, none of them empty.
C37_NoPartialRecord ==
  /\ intake # Null => IsComplete(intake)
  /\ (awaitingConfirmation \/ intakeConfirmed) => IsComplete(intake)
  /\ \A k \in 1..Len(store) : store[k].op = "saveIntake" => IsComplete(store[k].intake)

C37_Witness ==
  /\ intakeConfirmed
  /\ Len(messages) = 7
  /\ messages[2].content = IntakeWithoutTimeline
  /\ messages[3].content = HelperText
  /\ messages[4].content = IntakeA
  /\ \E k \in 1..Len(store) : store[k] = SaveIntake(ParseIntakeFromText(IntakeA))


(***************************************************************************)
(* One response in flight.                                                 *)
(***************************************************************************)
(* this step has appended the assistant message of the response in flight *)
AppendsResponse ==
  /\ Len(messages') = Len(messages) + 1
  /\ SubSeq(messages', 1, Len(messages)) = messages
  /\ messages'[Len(messages')].role = "assistant"
  /\ messages'[Len(messages')].id = assistantId

\* C38: isLoading is set exactly while a streamChat call is fetching or
\* reading; a step taken while it is set appends no user message, leaves the
\* intake state as it is and sends no request, and changes the message list
\* only by appending or extending the assistant message of the one response in
\* flight.
C38_OneResponseInFlight ==
  [][/\ isLoading <=> scPc # "idle"
     /\ isLoading =>
          /\ UserCount(messages') = UserCount(messages)
          /\ <<intake', intakeConfirmed', awaitingConfirmation'>>
               = <<intake, intakeConfirmed, awaitingConfirmation>>
          /\ requests' = requests
          /\ messages' # messages => (AppendsResponse \/ ExtendsResponse)
    ]_vars

C38_Witness ==
  /\ isLoading
  /\ scPc = "reading"
  /\ streamRest # ""
  /\ UserCount(messages) = 5
  /\ Len(requests) = 2
  /\ messages[Len(messages)].role = "assistant"
  /\ messages[Len(messages)].id = assistantId
  /\ messages[Len(messages) - 1].role = "user"


(***************************************************************************)
(* Termination of the read loop and of streamChat.                         *)
(***************************************************************************)
(* the read loop with a source that delivers chunks -- ended at the end of a *)
(* line, within a line, or within a character -- and then ends or fails     *)
NextFinish ==
  \/ \E n \in {k \in 1..Len(streamRest) :
                 k = Len(streamRest) \/ CharAt(streamRest, k - 1) \in {"\n", "\r", ":", LeadByte}} :
       StreamRead(n)
  \/ StreamEnd
  \/ StreamReadThrows

(* the source ends or fails at last: a rejection of reader.read() is enabled  *)
(* as long as streamChat is reading, so that a behaviour is fair exactly     *)
(* when one of StreamEnd and StreamReadThrows is taken                       *)
SpecFinish == ReadingInit /\ [][NextFinish]_vars /\ WF_vars(StreamReadThrows)

(* the bytes this step has taken from the transport *)
BytesRead == Len(streamRest) - Len(streamRest')

\* C39: the line loop of a chunk comes to its end and takes lines off the
\* buffer only: a pass of the read loop leaves in textBuffer no more than what
\* it held, what the decoder held and what was read, also when a line whose
\* payload does not parse is put back; and a streamChat that is reading
\* finishes, with isLoading false, once the source ends or fails.
C39_ReadLoopTerminates ==
  /\ [][/\ Len(textBuffer') <= Len(textBuffer) + Len(decoderRest) + BytesRead
        /\ scPc' = "idle" => ~isLoading'
       ]_vars
  /\ (scPc = "reading") ~> (scPc = "idle" /\ ~isLoading)

C39_Witness ==
  /\ scPc = "idle"
  /\ ~isLoading
  /\ streamRest = ""
  /\ \E i \in 0..(Len(textBuffer) - 1) : CharAt(textBuffer, i) = "\n"
  /\ IsBadLine(Slice(textBuffer, 0, IndexOf(textBuffer, "\n", 0)))
  /\ assistantContent = "ab"

====
